---- MODULE Spec2Model ----
(***************************************************************************)
(* Notebook bridge of the workbench: the sequence differ `diff` and the    *)
(* mime type ordering `sortMimeTypes` of                                   *)
(* src/vs/workbench/contrib/notebook/browser/notebook.contribution.ts.     *)
(*                                                                         *)
(* diff is modelled statement by statement: one action per branch of its   *)
(* while (true) loop, with pushSplice as an operator on the result list.   *)
(* sortMimeTypes is one action: Array.prototype.sort, in place, with the   *)
(* comparator built from getMimeTypeOrder.                                 *)
(***************************************************************************)
EXTENDS Integers, Sequences, FiniteSets

\* ------------------------------------------------------------------ bounds

\* Longest before / after sequence handed to diff.
MaxLen == 3

\* Longest mimeTypes array handed to sortMimeTypes.
MaxMimes == 3

\* Longest concatenation userOrder ++ documentOrder ++ defaultOrder.
MaxOrder == 3

\* Longest concatenation of the three orders when transformMimeTypes is called.
MaxTransformOrder == 1

\* Most renderers registered when transformMimeTypes is called.
MaxRenderers == 2

\* Most observables made by getObservable.
MaxProxies == 3

\* Most cells of a document.
MaxCells == 2

\* Most splices of a ModelChange event.
MaxSplices == 2

\* Most outputs of a cell of a document.
MaxOutputs == 1

\* The versionId of the last event the document receives.
MaxVersion == 2

\* ---------------------------------------------------------------- universes

\* The opaque values T of diff<T>; compared with === only.
Elems == {"a", "b", "c"}

\* A string is modelled as the sequence of its path segments and separators.
MimeUniverse ==
    { <<"text", "/", "html">>, <<"text", "/", "plain">>,
      <<"image", "/", "png">>, <<"application", "/", "json">> }

PatternUniverse ==
    { <<"text", "/", "*">>, <<"text", "/", "plain">>, <<"image", "/", "png">> }

\* The mime types an output carries: two that the core supports and one it does not.
OutputMimeUniverse ==
    { <<"text", "/", "html">>, <<"image", "/", "png">>, <<"application", "/", "x-custom">> }

\* The filter.subTypes a registered renderer may have.
SubTypesUniverse ==
    { { <<"text", "/", "html">>, <<"application", "/", "x-custom">> },
      { <<"text", "/", "html">>, <<"image", "/", "png">> } }

SeqsUpTo(S, n) == UNION { [1..k -> S] : k \in 0..n }

Range(s) == { s[i] : i \in 1..Len(s) }

IsInjective(s) == \A i, j \in 1..Len(s) : s[i] = s[j] => i = j

\* ------------------------------------------------------------------- state

VARIABLES
    before,             \* diff: the argument before
    after,              \* diff: the argument after
    containsSet,        \* diff: the values for which the argument contains answers true
    beforeIdx,          \* diff: let beforeIdx
    afterIdx,           \* diff: let afterIdx
    result,             \* diff: const result: IMutableSplice<T>[]
    toInsertOrigin,     \* diff: for each splice of result, the array its toInsert is: "call" (built by
                        \*       this call: an array literal or the value of slice) or "after" (the argument)
    containsCalls,      \* diff: number of calls of contains so far
    iterations,         \* diff: number of iterations of while (true) begun so far
    pc,                 \* diff: "loop" inside while (true), "done" after return; "idle" when not called
    isWindows,          \* platform.isWindows
    mimeTypes,          \* sortMimeTypes: the caller's array mimeTypes (sorted in place)
    mimeTypesAtCall,    \* sortMimeTypes: the contents of mimeTypes when the call was made
    userDisplayOrder,   \* sortMimeTypes: the argument userDisplayOrder
    documentDisplayOrder, \* sortMimeTypes: the argument documentDisplayOrder
    defaultOrder,       \* sortMimeTypes: the argument defaultOrder
    sorted,             \* sortMimeTypes: the array the returned value refers to ("none" before the return)
    sortPc,             \* sortMimeTypes: "call" before the call, "done" after return; "idle" when not called
    outputData,         \* transformMimeTypes: the keys of output.data, in the order Object.keys gives them
    renderers,          \* the controller's _notebookOutputRenderers, in insertion order
    tIdx,               \* transformMimeTypes: number of items of sorted that forEach has visited
    orderMimeTypes,     \* transformMimeTypes: let orderMimeTypes: IOrderedMimeType[]
    renderCalls,        \* transformMimeTypes: the calls of render made so far, in order, each with
                        \* its outcome ("returned" or "threw")
    returned,           \* transformMimeTypes: <<the value returned>>, <<>> while there is none
    thrown,             \* transformMimeTypes: the error that left the function, <<>> while there is none
    tPc,                \* transformMimeTypes: "sort", "forEach", "done", "thrown"; "idle" when not called
    cellOutputs,        \* ExtHostCell._outputs
    outputMapping,      \* ExtHostCell._outputMapping
    firedDiffs,         \* ExtHostCell: <<the splices of the last _onDidChangeOutputs.fire>>, <<>> before any
    cellPc,             \* ExtHostCell: "live" once constructed; "idle" when there is no cell
    heap,               \* the metadata objects: heap[1] is notebookDocumentMetadataDefaults
    proxies,            \* the observables made by getObservable: target, owner, whether the owner's
                        \* listener on onDidChange is still registered
    cellMeta,           \* ExtHostCell._metadata: index in proxies (0 when there is no cell)
    docMeta,            \* per document, ExtHostNotebookDocument._metadata: index in proxies (0: not created)
    sent,               \* the $updateNotebookCellMetadata / $updateNotebookMetadata calls of the last step
    lastOp,             \* the last step on metadata
    cells,              \* ExtHostNotebookDocument._cells: each cell with its identity, handle, _outputs
                        \* and _outputMapping
    stores,             \* ExtHostNotebookDocument._cellDisposableMapping: per handle, whether it has a
                        \* store and the cells whose onDidChangeOutputs listener the store holds
    versionId,          \* ExtHostNotebookDocument._versionId
    received,           \* <<the event $acceptModelChanged received, as it was on arrival>>
    emitted,            \* <<the event handed to the onDidChangeNotebookDocument listeners>>
    spliceCalls,        \* the $spliceNotebookCellOutputs calls of the last step
    docOp,              \* the last step on the document, with the cells before it
    editCalls,          \* NotebookEditor.edit: the insert and delete calls the callback made, in order
    collectedEdits,     \* NotebookEditorCellEditBuilder._collectedEdits
    tryApplyEdits,      \* <<the edits of the $tryApplyEdits call>>, <<>> while there was no call
    editResult,         \* what edit returned: "true" (Promise.resolve(true)), "proxy" (the promise of
                        \* $tryApplyEdits), "none" before
    editPc,             \* "callback" while the callback runs, "finalized" after; "idle" without an edit
    objects,            \* ExtHostNotebookController: the documents and editors ever constructed, each
                        \* with its kind, its uri and whether it was disposed
    documents,          \* ExtHostNotebookController._documents: per uri, an index in objects or 0
    editors,            \* ExtHostNotebookController._editors: per uri, an index in objects or 0
    activeNotebookDocument, \* ExtHostNotebookController._activeNotebookDocument: index in objects, 0 for undefined
    activeNotebookEditor    \* ExtHostNotebookController._activeNotebookEditor: index in objects, 0 for undefined

diffVars == <<before, after, containsSet, beforeIdx, afterIdx, result, toInsertOrigin,
              containsCalls, iterations, pc>>

sortVars == <<isWindows, mimeTypes, mimeTypesAtCall, userDisplayOrder,
              documentDisplayOrder, defaultOrder, sorted, sortPc>>

transVars == <<outputData, renderers, tIdx, orderMimeTypes, renderCalls, returned, thrown, tPc>>

cellVars == <<cellOutputs, outputMapping, firedDiffs, cellPc>>

metaVars == <<heap, proxies, cellMeta, docMeta, sent, lastOp>>

docVars == <<cells, stores, versionId, received, emitted, spliceCalls, docOp>>

editVars == <<editCalls, collectedEdits, tryApplyEdits, editResult, editPc>>

ctrlVars == <<objects, documents, editors, activeNotebookDocument, activeNotebookEditor>>

hostVars == <<editVars, ctrlVars>>

bridgeVars == <<cellVars, metaVars, docVars, hostVars>>

vars == <<diffVars, sortVars, transVars, bridgeVars>>

\* ==================================================================== diff

\* The caller's predicate contains: (a: T) => boolean.
contains(a) == a \in containsSet

\* after.slice(afterIdx), before[beforeIdx]: 0-based indexes on 1-based sequences.
slice(s, from) == SubSeq(s, from + 1, Len(s))

at(s, idx) == s[idx + 1]

pushSplice_noGuard(res, start, deleteCount, toInsert) ==
    IF Len(res) > 0 /\ res[Len(res)].start + res[Len(res)].deleteCount = start
    THEN [res EXCEPT ![Len(res)] =
            [start |-> @.start,
             deleteCount |-> @.deleteCount + deleteCount,
             toInsert |-> @.toInsert \o toInsert]]
    ELSE Append(res, [start |-> start, deleteCount |-> deleteCount, toInsert |-> toInsert])

pushSplice_startOnly(res, start, deleteCount, toInsert) ==
    IF deleteCount = 0 /\ Len(toInsert) = 0
    THEN res
    ELSE IF Len(res) > 0 /\ res[Len(res)].start = start
         THEN [res EXCEPT ![Len(res)] =
                 [start |-> @.start,
                  deleteCount |-> @.deleteCount + deleteCount,
                  toInsert |-> @.toInsert \o toInsert]]
         ELSE Append(res, [start |-> start, deleteCount |-> deleteCount, toInsert |-> toInsert])

\* function pushSplice(start, deleteCount, toInsert), on the closure's result list.
pushSplice(res, start, deleteCount, toInsert) ==
    IF deleteCount = 0 /\ Len(toInsert) = 0
    THEN res
    ELSE IF Len(res) > 0 /\ res[Len(res)].start + res[Len(res)].deleteCount = start
         THEN [res EXCEPT ![Len(res)] =
                 [start |-> @.start,
                  deleteCount |-> @.deleteCount + deleteCount,
                  toInsert |-> @.toInsert \o toInsert]]
         ELSE Append(res, [start |-> start, deleteCount |-> deleteCount, toInsert |-> toInsert])

\* One call of pushSplice from the loop, with what it does to the arrays at hand:
\* result.push({ start, deleteCount, toInsert }) keeps the very array it was handed
\* (origin names it), and latest.toInsert.push(...toInsert) writes into the array the
\* latest splice holds, which changes after if that array is after itself.
Push(start, deleteCount, toInsert, origin) ==
    /\ result' = pushSplice(result, start, deleteCount, toInsert)
    /\ toInsertOrigin' = IF Len(result') > Len(result)
                         THEN Append(toInsertOrigin, origin)
                         ELSE toInsertOrigin
    /\ after' = IF /\ Len(result') = Len(result)
                   /\ result' # result
                   /\ toInsertOrigin[Len(result)] = "after"
                THEN after \o toInsert
                ELSE after

DiffInit ==
    /\ before \in SeqsUpTo(Elems, MaxLen)
    /\ after \in SeqsUpTo(Elems, MaxLen)
    /\ containsSet \in SUBSET Elems
    /\ beforeIdx = 0
    /\ afterIdx = 0
    /\ result = <<>>
    /\ toInsertOrigin = <<>>
    /\ containsCalls = 0
    /\ iterations = 0
    /\ pc = "loop"

DiffFlushAfter_sliceOffByOne ==
    /\ pc = "loop"
    /\ beforeIdx = Len(before)
    /\ Push(beforeIdx, 0, slice(after, afterIdx + 1), "call")
    /\ pc' = "done"
    /\ iterations' = iterations + 1
    /\ UNCHANGED <<before, containsSet, beforeIdx, afterIdx, containsCalls, sortVars, transVars, bridgeVars>>

DiffFlushAfter_wholeAfter ==
    /\ pc = "loop"
    /\ beforeIdx = Len(before)
    /\ Push(beforeIdx, 0, after, "call")
    /\ pc' = "done"
    /\ iterations' = iterations + 1
    /\ UNCHANGED <<before, containsSet, beforeIdx, afterIdx, containsCalls, sortVars, transVars, bridgeVars>>

DiffFlushAfter_noCopyAtZero ==
    /\ pc = "loop"
    /\ beforeIdx = Len(before)
    /\ IF afterIdx = 0
       THEN Push(beforeIdx, 0, after, "after")
       ELSE Push(beforeIdx, 0, slice(after, afterIdx), "call")
    /\ pc' = "done"
    /\ iterations' = iterations + 1
    /\ UNCHANGED <<before, containsSet, beforeIdx, afterIdx, containsCalls, sortVars, transVars, bridgeVars>>

\* if (beforeIdx === before.length) { pushSplice(beforeIdx, 0, after.slice(afterIdx)); break; }
DiffFlushAfter ==
    /\ pc = "loop"
    /\ beforeIdx = Len(before)
    /\ Push(beforeIdx, 0, slice(after, afterIdx), "call")
    /\ pc' = "done"
    /\ iterations' = iterations + 1
    /\ UNCHANGED <<before, containsSet, beforeIdx, afterIdx, containsCalls, sortVars, transVars, bridgeVars>>

DiffFlushBefore_wholeLength ==
    /\ pc = "loop"
    /\ beforeIdx # Len(before)
    /\ afterIdx = Len(after)
    /\ Push(beforeIdx, Len(before), <<>>, "call")
    /\ pc' = "done"
    /\ iterations' = iterations + 1
    /\ UNCHANGED <<before, containsSet, beforeIdx, afterIdx, containsCalls, sortVars, transVars, bridgeVars>>

DiffFlushBefore_countOffByOne ==
    /\ pc = "loop"
    /\ beforeIdx # Len(before)
    /\ afterIdx = Len(after)
    /\ Push(beforeIdx, Len(before) - beforeIdx - 1, <<>>, "call")
    /\ pc' = "done"
    /\ iterations' = iterations + 1
    /\ UNCHANGED <<before, containsSet, beforeIdx, afterIdx, containsCalls, sortVars, transVars, bridgeVars>>

\* if (afterIdx === after.length) { pushSplice(beforeIdx, before.length - beforeIdx, []); break; }
DiffFlushBefore ==
    /\ pc = "loop"
    /\ beforeIdx # Len(before)
    /\ afterIdx = Len(after)
    /\ Push(beforeIdx, Len(before) - beforeIdx, <<>>, "call")
    /\ pc' = "done"
    /\ iterations' = iterations + 1
    /\ UNCHANGED <<before, containsSet, beforeIdx, afterIdx, containsCalls, sortVars, transVars, bridgeVars>>

DiffEqual_beforeOnly ==
    /\ pc = "loop"
    /\ beforeIdx # Len(before)
    /\ afterIdx # Len(after)
    /\ at(before, beforeIdx) = at(after, afterIdx)
    /\ beforeIdx' = beforeIdx + 1
    /\ iterations' = iterations + 1
    /\ UNCHANGED <<before, after, containsSet, afterIdx, result, toInsertOrigin, containsCalls, pc,
                   sortVars, transVars, bridgeVars>>

\* if (beforeElement === afterElement) { beforeIdx += 1; afterIdx += 1; continue; }
DiffEqual ==
    /\ pc = "loop"
    /\ beforeIdx # Len(before)
    /\ afterIdx # Len(after)
    /\ at(before, beforeIdx) = at(after, afterIdx)
    /\ beforeIdx' = beforeIdx + 1
    /\ afterIdx' = afterIdx + 1
    /\ iterations' = iterations + 1
    /\ UNCHANGED <<before, after, containsSet, result, toInsertOrigin, containsCalls, pc,
                   sortVars, transVars, bridgeVars>>

DiffDelete_noAdvance ==
    /\ pc = "loop"
    /\ beforeIdx # Len(before)
    /\ afterIdx # Len(after)
    /\ at(before, beforeIdx) # at(after, afterIdx)
    /\ contains(at(after, afterIdx))
    /\ containsCalls' = containsCalls + 1
    /\ Push(beforeIdx, 1, <<>>, "call")
    /\ iterations' = iterations + 1
    /\ UNCHANGED <<before, containsSet, beforeIdx, afterIdx, pc, sortVars, transVars, bridgeVars>>

\* if (contains(afterElement)) { pushSplice(beforeIdx, 1, []); beforeIdx += 1; }
DiffDelete ==
    /\ pc = "loop"
    /\ beforeIdx # Len(before)
    /\ afterIdx # Len(after)
    /\ at(before, beforeIdx) # at(after, afterIdx)
    /\ contains(at(after, afterIdx))
    /\ containsCalls' = containsCalls + 1
    /\ Push(beforeIdx, 1, <<>>, "call")
    /\ beforeIdx' = beforeIdx + 1
    /\ iterations' = iterations + 1
    /\ UNCHANGED <<before, containsSet, afterIdx, pc, sortVars, transVars, bridgeVars>>

DiffInsert_atAfterIdx ==
    /\ pc = "loop"
    /\ beforeIdx # Len(before)
    /\ afterIdx # Len(after)
    /\ at(before, beforeIdx) # at(after, afterIdx)
    /\ ~contains(at(after, afterIdx))
    /\ containsCalls' = containsCalls + 1
    /\ Push(afterIdx, 0, <<at(after, afterIdx)>>, "call")
    /\ afterIdx' = afterIdx + 1
    /\ iterations' = iterations + 1
    /\ UNCHANGED <<before, containsSet, beforeIdx, pc, sortVars, transVars, bridgeVars>>

\* else { pushSplice(beforeIdx, 0, [afterElement]); afterIdx += 1; }
DiffInsert ==
    /\ pc = "loop"
    /\ beforeIdx # Len(before)
    /\ afterIdx # Len(after)
    /\ at(before, beforeIdx) # at(after, afterIdx)
    /\ ~contains(at(after, afterIdx))
    /\ containsCalls' = containsCalls + 1
    /\ Push(beforeIdx, 0, <<at(after, afterIdx)>>, "call")
    /\ afterIdx' = afterIdx + 1
    /\ iterations' = iterations + 1
    /\ UNCHANGED <<before, containsSet, beforeIdx, pc, sortVars, transVars, bridgeVars>>

\* ============================================================ sortMimeTypes

\* string.replace(/\//g, '\\'): every forward slash becomes a backslash.
replaceSlashes(s) == [i \in 1..Len(s) |-> IF s[i] = "/" THEN "\\" ELSE s[i]]

\* The path segments of a string: what stands between its separators. glob reads a
\* forward slash and a backslash alike as a separator.
segments(s) == SelectSeq(s, LAMBDA t : t \notin {"/", "\\"})

\* glob.match(pattern, path) of vs/base/common/glob: segment by segment, a * matching
\* any one segment and any other segment matching itself only.
globMatch(pattern, path) ==
    LET p == segments(pattern)
        q == segments(path)
    IN /\ Len(p) = Len(q)
       /\ \A i \in 1..Len(p) : p[i] = "*" \/ p[i] = q[i]

\* function matchGlobUniversal(pattern, path)
matchGlobUniversal(pattern, path) ==
    IF isWindows
    THEN globMatch(replaceSlashes(pattern), replaceSlashes(path))
    ELSE globMatch(pattern, path)

RECURSIVE scanOrder(_, _, _, _)
\* One for loop of getMimeTypeOrder over the list `order`, entered with i and the
\* running rank: found when the loop returned the rank, else the rank it leaves.
scanOrder(list, mimeType, i, order) ==
    IF i >= Len(list) THEN [found |-> FALSE, order |-> order]
    ELSE IF matchGlobUniversal(list[i + 1], mimeType) THEN [found |-> TRUE, order |-> order]
    ELSE scanOrder(list, mimeType, i + 1, order + 1)

getMimeTypeOrder_restartPerList(mimeType, userOrder, documentOrder, defaultOrd) ==
    LET u == scanOrder(userOrder, mimeType, 0, 0)
        d == scanOrder(documentOrder, mimeType, 0, 0)
        f == scanOrder(defaultOrd, mimeType, 0, 0)
    IN IF u.found THEN u.order
       ELSE IF d.found THEN d.order
       ELSE IF f.found THEN f.order
       ELSE u.order + d.order + f.order

\* function getMimeTypeOrder(mimeType, userDisplayOrder, documentDisplayOrder, defaultOrder)
getMimeTypeOrder(mimeType, userOrder, documentOrder, defaultOrd) ==
    LET u == scanOrder(userOrder, mimeType, 0, 0)
    IN IF u.found THEN u.order
       ELSE LET d == scanOrder(documentOrder, mimeType, 0, u.order)
            IN IF d.found THEN d.order
               ELSE scanOrder(defaultOrd, mimeType, 0, d.order).order

compare_reversed(a, b) ==
    getMimeTypeOrder(b, userDisplayOrder, documentDisplayOrder, defaultOrder)
        - getMimeTypeOrder(a, userDisplayOrder, documentDisplayOrder, defaultOrder)

compare_tieAsGreater(a, b) ==
    IF getMimeTypeOrder(a, userDisplayOrder, documentDisplayOrder, defaultOrder)
          >= getMimeTypeOrder(b, userDisplayOrder, documentDisplayOrder, defaultOrder)
    THEN 1
    ELSE -1

\* The comparator handed to sort: (a, b) => getMimeTypeOrder(a, ...) - getMimeTypeOrder(b, ...)
compare(a, b) ==
    getMimeTypeOrder(a, userDisplayOrder, documentDisplayOrder, defaultOrder)
        - getMimeTypeOrder(b, userDisplayOrder, documentDisplayOrder, defaultOrder)

RECURSIVE insertSorted(_, _, _)
\* x put into the sorted sequence s behind every item that does not compare greater
\* than it; k items of s are still to be passed.
insertSorted(s, x, k) ==
    IF k > 0 /\ compare(s[k], x) > 0
    THEN insertSorted(s, x, k - 1)
    ELSE SubSeq(s, 1, k) \o <<x>> \o SubSeq(s, k + 1, Len(s))

RECURSIVE arraySort(_, _)
\* Array.prototype.sort with the comparator above, on the first n items: a stable sort.
arraySort(s, n) ==
    IF n = 0 THEN <<>>
    ELSE LET head == arraySort(s, n - 1)
         IN insertSorted(head, s[n], Len(head))

SortInit ==
    /\ isWindows \in BOOLEAN
    /\ mimeTypes \in { s \in SeqsUpTo(MimeUniverse, MaxMimes) : IsInjective(s) }
    /\ mimeTypesAtCall = mimeTypes
    /\ \E all \in SeqsUpTo(PatternUniverse, MaxOrder) :
         \E i \in 0..Len(all) : \E j \in i..Len(all) :
            /\ userDisplayOrder = SubSeq(all, 1, i)
            /\ documentDisplayOrder = SubSeq(all, i + 1, j)
            /\ defaultOrder = SubSeq(all, j + 1, Len(all))
    /\ sorted = "none"
    /\ sortPc = "call"

\* const sorted = mimeTypes.sort((a, b) => ...); return sorted;
\* sort orders the array in place and returns that same array.
SortMimeTypes ==
    /\ sortPc = "call"
    /\ mimeTypes' = arraySort(mimeTypes, Len(mimeTypes))
    /\ sorted' = "mimeTypes"
    /\ sortPc' = "done"
    /\ UNCHANGED <<isWindows, mimeTypesAtCall, userDisplayOrder, documentDisplayOrder,
                   defaultOrder, diffVars, transVars, bridgeVars>>

\* The contents of the array the returned value refers to.
sortedValue == IF sorted = "mimeTypes" THEN mimeTypes ELSE <<>>

SortIdle ==
    /\ isWindows = FALSE
    /\ mimeTypes = <<>>
    /\ mimeTypesAtCall = <<>>
    /\ userDisplayOrder = <<>>
    /\ documentDisplayOrder = <<>>
    /\ defaultOrder = <<>>
    /\ sorted = "none"
    /\ sortPc = "idle"

DiffIdle ==
    /\ before = <<>>
    /\ after = <<>>
    /\ containsSet = {}
    /\ beforeIdx = 0
    /\ afterIdx = 0
    /\ result = <<>>
    /\ toInsertOrigin = <<>>
    /\ containsCalls = 0
    /\ iterations = 0
    /\ pc = "idle"

\* ======================================================= transformMimeTypes

\* The list of mimeTypeSupportedByCore.
CoreMimeTypes ==
    { <<"application", "/", "json">>, <<"application", "/", "javascript">>,
      <<"text", "/", "html">>, <<"image", "/", "svg+xml">>, <<"text", "/", "markdown">>,
      <<"image", "/", "png">>, <<"image", "/", "jpeg">>, <<"text", "/", "plain">>,
      <<"text", "/", "x-javascript">> }

\* function mimeTypeSupportedByCore(mimeType)
mimeTypeSupportedByCore(mimeType) == mimeType \in CoreMimeTypes

\* ExtHostNotebookOutputRenderer.matches(mimeType)
matches(renderer, mimeType) == mimeType \in renderer.subTypes

\* ExtHostNotebookController.findBestMatchedRenderer(mimeType): the matching renderers in
\* the order of the map.
findBestMatchedRenderer(mimeType) == SelectSeq(renderers, LAMBDA r : matches(r, mimeType))

\* What handlers[0].render(this, output, mimeType) returns when it returns.
render(handle, mimeType) == <<"rendered", handle, mimeType>>

\* The error of a render call that throws.
renderError(handle, mimeType) == <<"error", handle, mimeType>>

\* Registries of n renderers: handles come from the pool in registration order.
Registries ==
    { [i \in 1..Len(f) |-> [handle |-> i - 1, subTypes |-> f[i]]] :
        f \in SeqsUpTo(SubTypesUniverse, MaxRenderers) }

TransInit ==
    /\ isWindows \in BOOLEAN
    /\ outputData \in { s \in SeqsUpTo(OutputMimeUniverse, MaxMimes) : IsInjective(s) }
    /\ mimeTypes = outputData
    /\ mimeTypesAtCall = outputData
    /\ \E all \in SeqsUpTo(PatternUniverse, MaxTransformOrder) :
         \E i \in 0..Len(all) : \E j \in i..Len(all) :
            /\ userDisplayOrder = SubSeq(all, 1, i)
            /\ documentDisplayOrder = SubSeq(all, i + 1, j)
            /\ defaultOrder = SubSeq(all, j + 1, Len(all))
    /\ renderers \in Registries
    /\ sorted = "none"
    /\ sortPc = "idle"
    /\ tIdx = 0
    /\ orderMimeTypes = <<>>
    /\ renderCalls = <<>>
    /\ returned = <<>>
    /\ thrown = <<>>
    /\ tPc = "sort"

TransformSort_unsorted ==
    /\ tPc = "sort"
    /\ sorted' = "mimeTypes"
    /\ tPc' = "forEach"
    /\ UNCHANGED <<mimeTypes, isWindows, mimeTypesAtCall, userDisplayOrder, documentDisplayOrder,
                   defaultOrder, sortPc, outputData, renderers, tIdx, orderMimeTypes,
                   renderCalls, returned, thrown, diffVars, bridgeVars>>

\* let mimeTypes = Object.keys(output.data);
\* const sorted = sortMimeTypes(mimeTypes, userOrder || [], this._displayOrder, defaultOrder || []);
TransformSort ==
    /\ tPc = "sort"
    /\ mimeTypes' = arraySort(mimeTypes, Len(mimeTypes))
    /\ sorted' = "mimeTypes"
    /\ tPc' = "forEach"
    /\ UNCHANGED <<isWindows, mimeTypesAtCall, userDisplayOrder, documentDisplayOrder,
                   defaultOrder, sortPc, outputData, renderers, tIdx, orderMimeTypes,
                   renderCalls, returned, thrown, diffVars, bridgeVars>>

\* The candidates pushed for the handlers at the indexes from i on: one unresolved
\* candidate each.
RECURSIVE alternatives(_, _, _)
alternatives(handlers, mimeType, i) ==
    IF i >= Len(handlers) THEN <<>>
    ELSE <<[mimeType |-> mimeType, isResolved |-> FALSE, rendererId |-> handlers[i + 1].handle]>>
            \o alternatives(handlers, mimeType, i + 1)

\* if (mimeTypeSupportedByCore(mimeType)) { orderMimeTypes.push({ ..., rendererId: -1 }); }
coreCandidate(mimeType) ==
    IF mimeTypeSupportedByCore(mimeType)
    THEN <<[mimeType |-> mimeType, isResolved |-> FALSE, rendererId |-> -1]>>
    ELSE <<>>

\* The item of sorted that forEach visits next.
currentMimeType == at(sortedValue, tIdx)

transformFrame == <<isWindows, mimeTypes, mimeTypesAtCall, userDisplayOrder, documentDisplayOrder,
                    defaultOrder, sorted, sortPc, outputData, renderers, diffVars, bridgeVars>>

RECURSIVE renderAll(_, _, _)
renderAll(handlers, mimeType, i) ==
    IF i >= Len(handlers) THEN <<>>
    ELSE <<[handle |-> handlers[i + 1].handle, mimeType |-> mimeType, outcome |-> "returned"]>>
            \o renderAll(handlers, mimeType, i + 1)

TransformRender_eager ==
    /\ tPc = "forEach"
    /\ tIdx < Len(sortedValue)
    /\ LET mimeType == currentMimeType
           handlers == findBestMatchedRenderer(mimeType)
       IN /\ Len(handlers) > 0
          /\ renderCalls' = renderCalls \o renderAll(handlers, mimeType, 0)
          /\ orderMimeTypes' =
                orderMimeTypes
                \o <<[mimeType |-> mimeType, isResolved |-> TRUE,
                      rendererId |-> handlers[1].handle,
                      output |-> render(handlers[1].handle, mimeType)]>>
                \o alternatives(handlers, mimeType, 1)
                \o coreCandidate(mimeType)
    /\ tIdx' = tIdx + 1
    /\ UNCHANGED <<returned, thrown, tPc, transformFrame>>

TransformRender_noCore ==
    /\ tPc = "forEach"
    /\ tIdx < Len(sortedValue)
    /\ LET mimeType == currentMimeType
           handlers == findBestMatchedRenderer(mimeType)
       IN /\ Len(handlers) > 0
          /\ renderCalls' = Append(renderCalls, [handle |-> handlers[1].handle, mimeType |-> mimeType, outcome |-> "returned"])
          /\ orderMimeTypes' =
                orderMimeTypes
                \o <<[mimeType |-> mimeType, isResolved |-> TRUE,
                      rendererId |-> handlers[1].handle,
                      output |-> render(handlers[1].handle, mimeType)]>>
                \o alternatives(handlers, mimeType, 1)
    /\ tIdx' = tIdx + 1
    /\ UNCHANGED <<returned, thrown, tPc, transformFrame>>

TransformRender_alternativesResolved ==
    /\ tPc = "forEach"
    /\ tIdx < Len(sortedValue)
    /\ LET mimeType == currentMimeType
           handlers == findBestMatchedRenderer(mimeType)
           alts == alternatives(handlers, mimeType, 1)
       IN /\ Len(handlers) > 0
          /\ renderCalls' = Append(renderCalls, [handle |-> handlers[1].handle, mimeType |-> mimeType, outcome |-> "returned"])
          /\ orderMimeTypes' =
                orderMimeTypes
                \o <<[mimeType |-> mimeType, isResolved |-> TRUE,
                      rendererId |-> handlers[1].handle,
                      output |-> render(handlers[1].handle, mimeType)]>>
                \o [k \in 1..Len(alts) |-> [alts[k] EXCEPT !.isResolved = TRUE]]
                \o coreCandidate(mimeType)
    /\ tIdx' = tIdx + 1
    /\ UNCHANGED <<returned, thrown, tPc, transformFrame>>

\* if (handlers.length) { let renderedOutput = handlers[0].render(this, output, mimeType);
\*   orderMimeTypes.push({ mimeType, isResolved: true, rendererId: handlers[0].handle, output });
\*   for (let i = 1; ...) orderMimeTypes.push({ mimeType, isResolved: false, rendererId: handlers[i].handle });
\*   if (mimeTypeSupportedByCore(mimeType)) orderMimeTypes.push({ ..., rendererId: -1 }); }
\* with render returning.
TransformRender ==
    /\ tPc = "forEach"
    /\ tIdx < Len(sortedValue)
    /\ LET mimeType == currentMimeType
           handlers == findBestMatchedRenderer(mimeType)
       IN /\ Len(handlers) > 0
          /\ renderCalls' = Append(renderCalls, [handle |-> handlers[1].handle, mimeType |-> mimeType, outcome |-> "returned"])
          /\ orderMimeTypes' =
                orderMimeTypes
                \o <<[mimeType |-> mimeType, isResolved |-> TRUE,
                      rendererId |-> handlers[1].handle,
                      output |-> render(handlers[1].handle, mimeType)]>>
                \o alternatives(handlers, mimeType, 1)
                \o coreCandidate(mimeType)
    /\ tIdx' = tIdx + 1
    /\ UNCHANGED <<returned, thrown, tPc, transformFrame>>

TransformRenderThrows_fallback ==
    /\ tPc = "forEach"
    /\ tIdx < Len(sortedValue)
    /\ LET mimeType == currentMimeType
           handlers == findBestMatchedRenderer(mimeType)
       IN /\ Len(handlers) > 0
          /\ renderCalls' = Append(renderCalls, [handle |-> handlers[1].handle, mimeType |-> mimeType, outcome |-> "threw"])
          /\ orderMimeTypes' = Append(orderMimeTypes, [mimeType |-> mimeType, isResolved |-> FALSE])
    /\ tIdx' = tIdx + 1
    /\ UNCHANGED <<returned, thrown, tPc, transformFrame>>

\* The same branch with handlers[0].render throwing: nothing catches the error, which
\* leaves forEach and transformMimeTypes.
TransformRenderThrows ==
    /\ tPc = "forEach"
    /\ tIdx < Len(sortedValue)
    /\ LET mimeType == currentMimeType
           handlers == findBestMatchedRenderer(mimeType)
       IN /\ Len(handlers) > 0
          /\ renderCalls' = Append(renderCalls, [handle |-> handlers[1].handle, mimeType |-> mimeType, outcome |-> "threw"])
          /\ thrown' = renderError(handlers[1].handle, mimeType)
    /\ tPc' = "thrown"
    /\ UNCHANGED <<tIdx, orderMimeTypes, returned, transformFrame>>

TransformNoHandler_coreSentinel ==
    /\ tPc = "forEach"
    /\ tIdx < Len(sortedValue)
    /\ Len(findBestMatchedRenderer(currentMimeType)) = 0
    /\ orderMimeTypes' = Append(orderMimeTypes,
          [mimeType |-> currentMimeType, isResolved |-> FALSE, rendererId |-> -1])
    /\ tIdx' = tIdx + 1
    /\ UNCHANGED <<renderCalls, returned, thrown, tPc, transformFrame>>

\* else { orderMimeTypes.push({ mimeType: mimeType, isResolved: false }); }
TransformNoHandler ==
    /\ tPc = "forEach"
    /\ tIdx < Len(sortedValue)
    /\ Len(findBestMatchedRenderer(currentMimeType)) = 0
    /\ orderMimeTypes' = Append(orderMimeTypes, [mimeType |-> currentMimeType, isResolved |-> FALSE])
    /\ tIdx' = tIdx + 1
    /\ UNCHANGED <<renderCalls, returned, thrown, tPc, transformFrame>>

\* return { outputKind: output.outputKind, data: output.data, orderedMimeTypes: orderMimeTypes,
\*          pickedMimeTypeIndex: 0 };
TransformReturn ==
    /\ tPc = "forEach"
    /\ tIdx = Len(sortedValue)
    /\ returned' = <<[outputKind |-> "Rich", data |-> outputData,
                      orderedMimeTypes |-> orderMimeTypes, pickedMimeTypeIndex |-> 0]>>
    /\ tPc' = "done"
    /\ UNCHANGED <<tIdx, orderMimeTypes, renderCalls, thrown, transformFrame>>

TransIdle ==
    /\ outputData = <<>>
    /\ renderers = <<>>
    /\ tIdx = 0
    /\ orderMimeTypes = <<>>
    /\ renderCalls = <<>>
    /\ returned = <<>>
    /\ thrown = <<>>
    /\ tPc = "idle"

\* ============================================================== ExtHostCell

\* diff(before, after, contains) from the indexes beforeIdx and afterIdx on, with the
\* splices pushed so far: the loop of diff run to its return.
RECURSIVE diffFrom(_, _, _, _, _, _)
diffFrom(b, a, set, bIdx, aIdx, res) ==
    IF bIdx = Len(b) THEN pushSplice(res, bIdx, 0, slice(a, aIdx))
    ELSE IF aIdx = Len(a) THEN pushSplice(res, bIdx, Len(b) - bIdx, <<>>)
    ELSE IF at(b, bIdx) = at(a, aIdx) THEN diffFrom(b, a, set, bIdx + 1, aIdx + 1, res)
    ELSE IF at(a, aIdx) \in set THEN diffFrom(b, a, set, bIdx + 1, aIdx, pushSplice(res, bIdx, 1, <<>>))
    ELSE diffFrom(b, a, set, bIdx, aIdx + 1, pushSplice(res, bIdx, 0, <<at(a, aIdx)>>))

\* diff<T>(before, after, contains), the predicate given as the set it answers true on.
diff(b, a, set) == diffFrom(b, a, set, 0, 0, <<>>)

\* diffs.forEach(diff => { for (i = diff.start; i < diff.start + diff.deleteCount; i++)
\*   this._outputMapping.delete(this._outputs[i]);
\*   diff.toInsert.forEach(output => this._outputMapping.add(output)); })
\* from the k-th splice on.
RECURSIVE updateOutputMapping(_, _, _, _)
updateOutputMapping(mapping, outputs, diffs, k) ==
    IF k > Len(diffs) THEN mapping
    ELSE updateOutputMapping(
            (mapping \ { at(outputs, i) : i \in diffs[k].start..(diffs[k].start + diffs[k].deleteCount - 1) })
                \cup Range(diffs[k].toInsert),
            outputs, diffs, k + 1)

\* new ExtHostCell(..., outputs, ...): this._outputs = outputs; _outputMapping = new Set().
CellInit ==
    /\ cellOutputs \in SeqsUpTo(Elems, MaxLen)
    /\ outputMapping = {}
    /\ firedDiffs = <<>>
    /\ cellPc = "live"

\* set outputs(newOutputs)
CellSetOutputs ==
    /\ cellPc = "live"
    /\ \E newOutputs \in SeqsUpTo(Elems, MaxLen) :
          LET diffs == diff(cellOutputs, newOutputs, outputMapping)
          IN /\ outputMapping' = updateOutputMapping(outputMapping, cellOutputs, diffs, 1)
             /\ cellOutputs' = newOutputs
             /\ firedDiffs' = <<diffs>>
    /\ UNCHANGED <<cellPc, metaVars, docVars, hostVars, diffVars, sortVars, transVars>>

CellIdle ==
    /\ cellOutputs = <<>>
    /\ outputMapping = {}
    /\ firedDiffs = <<>>
    /\ cellPc = "idle"

\* ================================================================= metadata

\* The properties of a metadata object that are followed.
MetaProps == {"editable", "runnable"}

\* notebookDocumentMetadataDefaults as the module initialises it.
MetadataDefaults == [p \in MetaProps |-> "true"]

\* The plain objects handed over as metadata: {} and { editable: false }.
PlainObjects ==
    { [p \in MetaProps |-> "undefined"],
      [p \in MetaProps |-> IF p = "editable" THEN "false" ELSE "undefined"] }

DocIds == {"doc1", "doc2"}

ObjRef(id) == [kind |-> "obj", id |-> id]

ProxyRef(k) == [kind |-> "proxy", id |-> k]

\* The plain object behind a reference: a proxy has no set of properties of its own.
RECURSIVE deref(_)
deref(ref) == IF ref.kind = "obj" THEN ref.id ELSE deref(proxies[ref.id].target)

\* The proxies whose set trap runs on a write through ref, in the order their
\* onDidChange fires: target[p] = value runs the target's trap first.
RECURSIVE trapped(_)
trapped(ref) == IF ref.kind = "obj" THEN <<>> ELSE Append(trapped(proxies[ref.id].target), ref.id)

\* this._metadata of an owner, as an index in proxies.
currentOf(owner) == IF owner = "cell" THEN cellMeta ELSE docMeta[owner]

\* updateMetadata() of each owner whose listener is still registered on an emitter that
\* fires: the call carries this._metadata as it is then, on the heap h.
updatesFired(fired, h) ==
    LET liveOnes == SelectSeq(fired, LAMBDA k : proxies[k].live)
    IN [i \in 1..Len(liveOnes) |->
          [owner |-> proxies[liveOnes[i]].owner,
           metadata |-> h[deref(ProxyRef(currentOf(proxies[liveOnes[i]].owner)))]]]

\* new Proxy(obj, { set(target, p, value) { target[p] = value; onDidChange.fire(); return true; } })
ProxySet(k, prop, value) ==
    LET h == [heap EXCEPT ![deref(ProxyRef(k))][prop] = value]
    IN /\ heap' = h
       /\ sent' = updatesFired(trapped(ProxyRef(k)), h)

\* The references a caller of a metadata setter can pass: a new plain object, a plain
\* object passed before, or an object returned by a metadata getter.
NewObject(obj) == [fresh |-> TRUE, obj |-> obj, ref |-> ObjRef(Len(heap) + 1)]

Passable ==
    { NewObject(o) : o \in PlainObjects }
        \cup { [fresh |-> FALSE, obj |-> heap[i], ref |-> ObjRef(i)] : i \in 2..Len(heap) }
        \cup { [fresh |-> FALSE, obj |-> heap[deref(ProxyRef(k))], ref |-> ProxyRef(k)] : k \in 1..Len(proxies) }

\* new ExtHostCell(..., _metadata, ...): getObservable(_metadata || {}) with the listener
\* registered.
CellMetaInit ==
    /\ \E o \in PlainObjects : heap = <<MetadataDefaults, o>>
    /\ proxies = <<[target |-> ObjRef(2), live |-> TRUE, owner |-> "cell"]>>
    /\ cellMeta = 1
    /\ docMeta = [d \in DocIds |-> 0]
    /\ sent = <<>>
    /\ lastOp = [kind |-> "construct", owner |-> "cell", proxy |-> 1, prop |-> "", value |-> ""]

metaFrame == <<cellOutputs, outputMapping, firedDiffs, cellPc, docVars, hostVars, diffVars, sortVars,
               transVars>>

\* A property write on an object that cell.metadata returned, now or earlier.
CellMetadataWrite ==
    /\ cellMeta # 0
    /\ \E k \in 1..Len(proxies), prop \in MetaProps, value \in {"true", "false"} :
          /\ proxies[k].owner = "cell"
          /\ ProxySet(k, prop, value)
          /\ lastOp' = [kind |-> "write", owner |-> "cell", proxy |-> k, prop |-> prop, value |-> value]
    /\ UNCHANGED <<proxies, cellMeta, docMeta, metaFrame>>

CellMetadataAssign_keepsListener ==
    /\ cellMeta # 0
    /\ Len(proxies) < MaxProxies
    /\ \E new \in Passable :
          /\ heap' = IF new.fresh THEN Append(heap, new.obj) ELSE heap
          /\ proxies' = Append(proxies, [target |-> new.ref, live |-> TRUE, owner |-> "cell"])
          /\ cellMeta' = Len(proxies) + 1
          /\ sent' = <<[owner |-> "cell", metadata |-> new.obj]>>
          /\ lastOp' = [kind |-> "assign", owner |-> "cell", proxy |-> Len(proxies) + 1,
                        prop |-> "", value |-> ""]
    /\ UNCHANGED <<docMeta, metaFrame>>

\* set metadata(newMetadata) of ExtHostCell: dispose the listener, getObservable(newMetadata),
\* register the listener, updateMetadata().
CellMetadataAssign ==
    /\ cellMeta # 0
    /\ Len(proxies) < MaxProxies
    /\ \E new \in Passable :
          /\ heap' = IF new.fresh THEN Append(heap, new.obj) ELSE heap
          /\ proxies' = Append([proxies EXCEPT ![cellMeta].live = FALSE],
                               [target |-> new.ref, live |-> TRUE, owner |-> "cell"])
          /\ cellMeta' = Len(proxies) + 1
          /\ sent' = <<[owner |-> "cell", metadata |-> new.obj]>>
          /\ lastOp' = [kind |-> "assign", owner |-> "cell", proxy |-> Len(proxies) + 1,
                        prop |-> "", value |-> ""]
    /\ UNCHANGED <<docMeta, metaFrame>>

\* new ExtHostNotebookDocument(...): getObservable(notebookDocumentMetadataDefaults) with the
\* listener registered.
DocCreate ==
    /\ Len(proxies) < MaxProxies
    /\ \E d \in DocIds :
          /\ docMeta[d] = 0
          /\ proxies' = Append(proxies, [target |-> ObjRef(1), live |-> TRUE, owner |-> d])
          /\ docMeta' = [docMeta EXCEPT ![d] = Len(proxies) + 1]
          /\ lastOp' = [kind |-> "create", owner |-> d, proxy |-> Len(proxies) + 1,
                        prop |-> "", value |-> ""]
    /\ sent' = <<>>
    /\ UNCHANGED <<heap, cellMeta, metaFrame>>

\* A property write on an object that document.metadata returned, now or earlier.
DocMetadataWrite ==
    /\ \E k \in 1..Len(proxies), prop \in MetaProps, value \in {"true", "false"} :
          /\ proxies[k].owner \in DocIds
          /\ ProxySet(k, prop, value)
          /\ lastOp' = [kind |-> "write", owner |-> proxies[k].owner, proxy |-> k,
                        prop |-> prop, value |-> value]
    /\ UNCHANGED <<proxies, cellMeta, docMeta, metaFrame>>

\* { ...notebookDocumentMetadataDefaults, ...newMetadata }
spreadOverDefaults(obj) == [p \in MetaProps |-> IF obj[p] = "undefined" THEN heap[1][p] ELSE obj[p]]

\* set metadata(newMetadata) of ExtHostNotebookDocument: dispose the listener, spread the
\* defaults and newMetadata into a new object, getObservable of it, register the listener,
\* updateMetadata().
DocMetadataAssign ==
    /\ Len(proxies) < MaxProxies
    /\ \E d \in DocIds, new \in Passable :
          /\ docMeta[d] # 0
          /\ heap' = Append(heap, spreadOverDefaults(new.obj))
          /\ proxies' = Append([proxies EXCEPT ![docMeta[d]].live = FALSE],
                               [target |-> ObjRef(Len(heap) + 1), live |-> TRUE, owner |-> d])
          /\ docMeta' = [docMeta EXCEPT ![d] = Len(proxies) + 1]
          /\ sent' = <<[owner |-> d, metadata |-> spreadOverDefaults(new.obj)]>>
          /\ lastOp' = [kind |-> "assign", owner |-> d, proxy |-> Len(proxies) + 1,
                        prop |-> "", value |-> ""]
    /\ UNCHANGED <<cellMeta, metaFrame>>

MetaIdle ==
    /\ heap = <<MetadataDefaults>>
    /\ proxies = <<>>
    /\ cellMeta = 0
    /\ docMeta = [d \in DocIds |-> 0]
    /\ sent = <<>>
    /\ lastOp = [kind |-> "none", owner |-> "", proxy |-> 0, prop |-> "", value |-> ""]

\* ================================================== ExtHostNotebookDocument

\* The handles the main thread gives to cells.
Handles == {1, 2}

TextOutput == [outputKind |-> "Text", text |-> "t"]

RichOutput(data) == [outputKind |-> "Rich", data |-> data]

\* The outputs assigned to cells: a stream output, a rich output with one mime type and a
\* rich output whose data is {}.
DocOutputs == { TextOutput, RichOutput(<< <<"text", "/", "html">> >>), RichOutput(<<>>) }

\* The outputs a cell dto arrives with.
DtoOutputs == { <<>> }

\* The renderer registry while the document lives: one renderer.
DocRegistry ==
    <<[handle |-> 0, subTypes |-> { <<"text", "/", "html">>, <<"application", "/", "x-custom">> }]>>

\* The body of sorted.forEach(mimeType => ...) of transformMimeTypes, with render returning.
candidatesFor(mimeType) ==
    LET handlers == findBestMatchedRenderer(mimeType)
    IN IF Len(handlers) > 0
       THEN <<[mimeType |-> mimeType, isResolved |-> TRUE, rendererId |-> handlers[1].handle,
               output |-> render(handlers[1].handle, mimeType)]>>
            \o alternatives(handlers, mimeType, 1)
            \o coreCandidate(mimeType)
       ELSE <<[mimeType |-> mimeType, isResolved |-> FALSE]>>

RECURSIVE candidatesFrom(_, _)
candidatesFrom(sortedMimeTypes, i) ==
    IF i > Len(sortedMimeTypes) THEN <<>>
    ELSE candidatesFor(sortedMimeTypes[i]) \o candidatesFrom(sortedMimeTypes, i + 1)

\* transformMimeTypes(output), run to its return.
transformMimeTypes(output) ==
    [outputKind |-> output.outputKind,
     data |-> output.data,
     orderedMimeTypes |-> candidatesFrom(arraySort(output.data, Len(output.data)), 1),
     pickedMimeTypeIndex |-> 0]

\* outputs.map(output => output.outputKind === CellOutputKind.Rich ? transformMimeTypes(output) : output)
transformOutput(output) ==
    IF output.outputKind = "Rich" THEN transformMimeTypes(output) ELSE output

\* ret.orderedMimeTypes[ret.pickedMimeTypeIndex] is undefined: reading .isResolved throws.
readsMissingEntry(output) ==
    /\ output.outputKind = "Rich"
    /\ transformMimeTypes(output).pickedMimeTypeIndex >= Len(transformMimeTypes(output).orderedMimeTypes)

\* renderers.add(rendererId) for each inserted rich output whose picked candidate is
\* resolved; Array.from(renderers) lists them in insertion order.
RECURSIVE renderersOf(_, _, _)
renderersOf(outputs, i, acc) ==
    IF i > Len(outputs) THEN acc
    ELSE LET ret == transformMimeTypes(outputs[i])
             picked == ret.orderedMimeTypes[ret.pickedMimeTypeIndex + 1]
         IN IF /\ outputs[i].outputKind = "Rich"
               /\ picked.isResolved
               /\ picked.rendererId \notin Range(acc)
            THEN renderersOf(outputs, i + 1, Append(acc, picked.rendererId))
            ELSE renderersOf(outputs, i + 1, acc)

RECURSIVE allInserted(_, _)
allInserted(diffs, k) ==
    IF k > Len(diffs) THEN <<>> ELSE diffs[k].toInsert \o allInserted(diffs, k + 1)

\* eventuallyUpdateCellOutputs(cell, diffs): the $spliceNotebookCellOutputs calls it makes;
\* none when reading the picked candidate throws.
eventuallyUpdateCellOutputs(cell, diffs) ==
    IF \E i \in 1..Len(allInserted(diffs, 1)) : readsMissingEntry(allInserted(diffs, 1)[i])
    THEN <<>>
    ELSE <<[handle |-> cell.handle,
            splices |-> [k \in 1..Len(diffs) |->
                            [start |-> diffs[k].start,
                             deleteCount |-> diffs[k].deleteCount,
                             outputs |-> [i \in 1..Len(diffs[k].toInsert) |->
                                             transformOutput(diffs[k].toInsert[i])]]],
            renderers |-> renderersOf(allInserted(diffs, 1), 1, <<>>)]>>

\* Whether the listener the document put on the cell's onDidChangeOutputs is registered:
\* it sits in a store that was not disposed.
isSubscribed(cell, st) == \E h \in Handles : st[h].present /\ cell.id \in st[h].members

\* set outputs(newOutputs) on a cell of the document: the cell afterwards and the calls the
\* fire of onDidChangeOutputs leads to.
setOutputs(cell, newOutputs, st) ==
    LET diffs == diff(cell.outputs, newOutputs, cell.mapping)
    IN [cell |-> [cell EXCEPT !.outputs = newOutputs,
                              !.mapping = updateOutputMapping(cell.mapping, cell.outputs, diffs, 1)],
        calls |-> IF isSubscribed(cell, st) THEN eventuallyUpdateCellOutputs(cell, diffs) ELSE <<>>]

NoStore == [present |-> FALSE, members |-> {}]

\* An identity for a new cell object: one that no cell of cs and no listener of a store has.
freshId(cs, st) ==
    CHOOSE n \in 1..(Len(cs) + Cardinality(UNION { st[h].members : h \in Handles }) + 1) :
        /\ \A i \in 1..Len(cs) : cs[i].id # n
        /\ \A h \in Handles : n \notin st[h].members

\* cellDtos.map(cell => { const extCell = new ExtHostCell(...);
\*   if (!mapping.has(handle)) mapping.set(handle, new DisposableStore());
\*   store.add(extCell.onDidChangeOutputs(...)); return extCell; }), from the i-th dto on.
\* made holds the cells made so far.
RECURSIVE makeCells(_, _, _, _, _)
makeCells(dtos, i, cs, st, made) ==
    IF i > Len(dtos) THEN [cells |-> made, stores |-> st]
    ELSE LET id == freshId(cs \o made, st)
             h == dtos[i].handle
             extCell == [id |-> id, handle |-> h, outputs |-> dtos[i].outputs, mapping |-> {}]
         IN makeCells(dtos, i + 1, cs,
                      [st EXCEPT ![h] = [present |-> TRUE, members |-> @.members \cup {id}]],
                      Append(made, extCell))

\* for (j = splice[0]; j < splice[0] + splice[1]; j++) { mapping.get(cells[j].handle)?.dispose();
\*   mapping.delete(cells[j].handle); }
RECURSIVE disposeStores(_, _, _, _)
disposeStores(cs, st, j, end) ==
    IF j >= end THEN st
    ELSE disposeStores(cs, [st EXCEPT ![at(cs, j).handle] = NoStore], j + 1, end)

spliceOne_keepsDeleted(cs, st, splice, old) ==
    LET made == makeCells(splice.cells, 1, old \o cs, st, <<>>)
    IN [cells |-> SubSeq(cs, 1, splice.start) \o made.cells
                    \o SubSeq(cs, splice.start + 1, Len(cs)),
        stores |-> disposeStores(cs, made.stores, splice.start, splice.start + splice.deleteCount)]

\* The body of splices.reverse().forEach(splice => ...) for one splice. old holds the cells
\* that existed when the event arrived, whose identities a new cell cannot have.
spliceOne(cs, st, splice, old) ==
    LET made == makeCells(splice.cells, 1, old \o cs, st, <<>>)
    IN [cells |-> SubSeq(cs, 1, splice.start) \o made.cells
                    \o SubSeq(cs, splice.start + splice.deleteCount + 1, Len(cs)),
        stores |-> disposeStores(cs, made.stores, splice.start, splice.start + splice.deleteCount)]

Reverse(s) == [i \in 1..Len(s) |-> s[Len(s) + 1 - i]]

\* $spliceNotebookCells(splices) from the k-th item of the reversed list on.
RECURSIVE spliceFrom(_, _, _, _, _)
spliceFrom(cs, st, reversed, k, old) ==
    IF k > Len(reversed) THEN [cells |-> cs, stores |-> st]
    ELSE LET one == spliceOne(cs, st, reversed[k], old)
         IN spliceFrom(one.cells, one.stores, reversed, k + 1, old)

\* The cell dtos of an event.
CellDtos == { [handle |-> h, outputs |-> o] : h \in Handles, o \in DtoOutputs }

\* The splices an event may carry for a list of n cells: inside the list, changing something.
SplicesFor(n) ==
    { sp \in [start : 0..n, deleteCount : 0..n, cells : SeqsUpTo(CellDtos, MaxCells)] :
        /\ sp.start + sp.deleteCount <= n
        /\ sp.deleteCount > 0 \/ Len(sp.cells) > 0 }

\* The list of handles after the splices, each range replaced by the new cells' handles.
RECURSIVE handlesAfter(_, _, _, _)
handlesAfter(cs, splices, k, pos) ==
    IF k > Len(splices) THEN [i \in 1..(Len(cs) - pos) |-> cs[pos + i].handle]
    ELSE [i \in 1..(splices[k].start - pos) |-> cs[pos + i].handle]
            \o [i \in 1..Len(splices[k].cells) |-> splices[k].cells[i].handle]
            \o handlesAfter(cs, splices, k + 1, splices[k].start + splices[k].deleteCount)

\* What the main thread sends: splices sorted by start, not overlapping, inside the list,
\* none empty, leaving at most MaxCells cells with distinct handles.
WellFormed(cs, splices) ==
    /\ \A k \in 1..(Len(splices) - 1) :
          /\ splices[k].start < splices[k + 1].start
          /\ splices[k].start + splices[k].deleteCount <= splices[k + 1].start
    /\ Len(handlesAfter(cs, splices, 1, 0)) <= MaxCells
    /\ IsInjective(handlesAfter(cs, splices, 1, 0))

NoEvent == <<>>

DocInit ==
    /\ cells = <<>>
    /\ stores = [h \in Handles |-> NoStore]
    /\ versionId = 0
    /\ received = NoEvent
    /\ emitted = NoEvent
    /\ spliceCalls = <<>>
    /\ docOp = [kind |-> "create", index |-> 0, before |-> <<>>]

docFrame == <<cellVars, metaVars, hostVars, diffVars, sortVars, transVars>>

\* $acceptModelChanged(uri, event) with event.kind === ModelChange: accpetModelChanged,
\* $spliceNotebookCells, then _onDidChangeNotebookDocument.fire.
AcceptModelChange ==
    \E changes \in SeqsUpTo(SplicesFor(Len(cells)), MaxSplices), v \in {versionId + 1} :
        /\ versionId < MaxVersion
        /\ WellFormed(cells, changes)
        /\ LET done == spliceFrom(cells, stores, Reverse(changes), 1, cells)
           IN /\ cells' = done.cells
              /\ stores' = done.stores
        /\ versionId' = v
        /\ received' = <<[kind |-> "ModelChange", changes |-> changes, versionId |-> v]>>
        /\ emitted' = <<[kind |-> "ModelChange", changes |-> Reverse(changes), versionId |-> v]>>
        /\ spliceCalls' = <<>>
        /\ docOp' = [kind |-> "modelChange", index |-> 0, before |-> cells]
        /\ UNCHANGED docFrame

\* $acceptModelChanged with event.kind === Move: $moveCell(index, newIdx).
AcceptMove ==
    \E index \in 0..(Len(cells) - 1), newIdx \in 0..(Len(cells) - 1), v \in {versionId + 1} :
        /\ versionId < MaxVersion
        /\ LET moved == at(cells, index)
               rest == SubSeq(cells, 1, index) \o SubSeq(cells, index + 2, Len(cells))
           IN cells' = SubSeq(rest, 1, newIdx) \o <<moved>> \o SubSeq(rest, newIdx + 1, Len(rest))
        /\ versionId' = v
        /\ received' = <<[kind |-> "Move", index |-> index, newIdx |-> newIdx, versionId |-> v]>>
        /\ emitted' = received'
        /\ spliceCalls' = <<>>
        /\ docOp' = [kind |-> "move", index |-> index, before |-> cells]
        /\ UNCHANGED <<stores, docFrame>>

\* $acceptModelChanged with event.kind === CellClearOutput: $clearCellOutputs(index).
AcceptCellClearOutput ==
    \E index \in 0..(Len(cells) - 1), v \in {versionId + 1} :
        /\ versionId < MaxVersion
        /\ LET set == setOutputs(at(cells, index), <<>>, stores)
           IN /\ cells' = [cells EXCEPT ![index + 1] = set.cell]
              /\ spliceCalls' = set.calls
        /\ versionId' = v
        /\ received' = <<[kind |-> "CellClearOutput", index |-> index, versionId |-> v]>>
        /\ emitted' = received'
        /\ docOp' = [kind |-> "clear", index |-> index, before |-> cells]
        /\ UNCHANGED <<stores, docFrame>>

RECURSIVE clearAllCalls(_, _, _)
clearAllCalls(cs, st, i) ==
    IF i > Len(cs) THEN <<>>
    ELSE setOutputs(cs[i], <<>>, st).calls \o clearAllCalls(cs, st, i + 1)

\* $acceptModelChanged with event.kind === CellsClearOutput: $clearAllCellOutputs().
AcceptCellsClearOutput ==
    \E v \in {versionId + 1} :
        /\ versionId < MaxVersion
        /\ cells' = [i \in 1..Len(cells) |-> setOutputs(cells[i], <<>>, stores).cell]
        /\ spliceCalls' = clearAllCalls(cells, stores, 1)
        /\ versionId' = v
        /\ received' = <<[kind |-> "CellsClearOutput", versionId |-> v]>>
        /\ emitted' = received'
        /\ docOp' = [kind |-> "clearAll", index |-> 0, before |-> cells]
        /\ UNCHANGED <<stores, docFrame>>

\* An extension assigns cell.outputs of a cell of the document.
AssignOutputs ==
    \E index \in 0..(Len(cells) - 1), newOutputs \in SeqsUpTo(DocOutputs, MaxOutputs) :
        /\ LET set == setOutputs(at(cells, index), newOutputs, stores)
           IN /\ cells' = [cells EXCEPT ![index + 1] = set.cell]
              /\ spliceCalls' = set.calls
        /\ docOp' = [kind |-> "assign", index |-> index, before |-> cells]
        /\ UNCHANGED <<stores, versionId, received, emitted, docFrame>>

DocIdle ==
    /\ cells = <<>>
    /\ stores = [h \in Handles |-> NoStore]
    /\ versionId = 0
    /\ received = NoEvent
    /\ emitted = NoEvent
    /\ spliceCalls = <<>>
    /\ docOp = [kind |-> "none", index |-> 0, before |-> <<>>]

\* ------------------------------------------------- NotebookEditor.edit

MaxEdits == 3

\* The indices the callback passes and the sources of the cells it inserts.
EditIndices == {0, 1}

EditSources == {"A", "B"}

\* The cell insert builds from its arguments; outputs is [] here, so outputs.map adds nothing.
newCell(source) == [source |-> source, outputs |-> <<>>]

\* edit(callback): const edit = new NotebookEditorCellEditBuilder(this); the callback runs.
EditInit ==
    /\ editCalls = <<>>
    /\ collectedEdits = <<>>
    /\ tryApplyEdits = <<>>
    /\ editResult = "none"
    /\ editPc = "callback"

editFrame == <<cellVars, metaVars, docVars, ctrlVars, diffVars, sortVars, transVars>>

\* editBuilder.insert(index, content, ...) inside the callback.
EditInsert ==
    \E index \in EditIndices, source \in EditSources :
        /\ editPc = "callback"
        /\ Len(collectedEdits) < MaxEdits
        /\ collectedEdits' = Append(collectedEdits,
              [editType |-> "Insert", index |-> index, cells |-> <<newCell(source)>>])
        /\ editCalls' = Append(editCalls,
              [editType |-> "Insert", index |-> index, cells |-> <<newCell(source)>>])
        /\ UNCHANGED <<tryApplyEdits, editResult, editPc, editFrame>>

\* editBuilder.delete(index) inside the callback.
EditDelete ==
    \E index \in EditIndices :
        /\ editPc = "callback"
        /\ Len(collectedEdits) < MaxEdits
        /\ collectedEdits' = Append(collectedEdits,
              [editType |-> "Delete", index |-> index, count |-> 1])
        /\ editCalls' = Append(editCalls, [editType |-> "Delete", index |-> index, count |-> 1])
        /\ UNCHANGED <<tryApplyEdits, editResult, editPc, editFrame>>

\* The loop of _applyEdit from the i-th edit on. edits holds the edit objects, which the
\* loop changes in place; kept holds the positions in edits of the objects pushed to
\* compressedEdits, so compressedEdits[compressedEditsIndex] is edits[kept[Len(kept)]].
RECURSIVE compressFrom(_, _, _)
compressFrom(edits, i, kept) ==
    IF i > Len(edits) THEN [edits |-> edits, kept |-> kept]
    ELSE IF kept = <<>> THEN compressFrom(edits, i + 1, <<i>>)
    ELSE LET prevIndex == kept[Len(kept)]
             prev == edits[prevIndex]
         IN IF /\ prev.editType = "Insert" /\ edits[i].editType = "Insert"
               /\ prev.index = edits[i].index
            THEN compressFrom([edits EXCEPT ![prevIndex].cells = @ \o edits[i].cells], i + 1, kept)
            ELSE IF /\ prev.editType = "Delete" /\ edits[i].editType = "Delete"
                    /\ prev.index = edits[i].index
            THEN compressFrom([edits EXCEPT ![prevIndex].count = @ + edits[i].count], i + 1, kept)
            ELSE compressFrom(edits, i + 1, Append(kept, i))

compressedEdits(edits) ==
    LET done == compressFrom(edits, 1, <<>>)
    IN [k \in 1..Len(done.kept) |-> done.edits[done.kept[k]]]

\* The callback returned: _applyEdit(edit).
ApplyEdit ==
    /\ editPc = "callback"
    /\ editPc' = "finalized"
    /\ IF Len(collectedEdits) = 0
       THEN /\ editResult' = "true"
            /\ UNCHANGED <<collectedEdits, tryApplyEdits>>
       ELSE /\ collectedEdits' = compressFrom(collectedEdits, 1, <<>>).edits
            /\ tryApplyEdits' = <<compressedEdits(collectedEdits)>>
            /\ editResult' = "proxy"
    /\ UNCHANGED <<editCalls, editFrame>>

EditIdle ==
    /\ editCalls = <<>>
    /\ collectedEdits = <<>>
    /\ tryApplyEdits = <<>>
    /\ editResult = "none"
    /\ editPc = "idle"

\* ------------------------------ ExtHostNotebookController.$acceptDocumentAndEditorsDelta

MaxObjects == 6

Uris == {"u1", "u2"}

NoUri == "none"

\* The lists of uris a delta carries: no uri twice.
UriLists == { l \in SeqsUpTo(Uris, 2) : IsInjective(l) }

\* new ExtHostNotebookController(...)
CtrlInit ==
    /\ objects = <<>>
    /\ documents = [u \in Uris |-> 0]
    /\ editors = [u \in Uris |-> 0]
    /\ activeNotebookDocument = 0
    /\ activeNotebookEditor = 0

dispose(objs, id) == IF id = 0 THEN objs ELSE [objs EXCEPT ![id].disposed = TRUE]

\* delta.removedDocuments.forEach(uri => ...) from the i-th uri on; c holds objects,
\* documents and editors.
RECURSIVE removeFrom(_, _, _)
removeFrom(c, removed, i) ==
    IF i > Len(removed) THEN c
    ELSE removeFrom([objects |-> dispose(dispose(c.objects, c.documents[removed[i]]),
                                         c.editors[removed[i]]),
                     documents |-> [c.documents EXCEPT ![removed[i]] = 0],
                     editors |-> [c.editors EXCEPT ![removed[i]] = 0]],
                    removed, i + 1)

\* delta.addedDocuments.forEach(modelData => ...) from the i-th on.
RECURSIVE addFrom(_, _, _)
addFrom(c, added, i) ==
    IF i > Len(added) THEN c
    ELSE LET uri == added[i]
             withDocument ==
                 IF c.documents[uri] = 0
                 THEN Append(c.objects, [kind |-> "document", uri |-> uri, disposed |-> FALSE])
                 ELSE c.objects
             document == IF c.documents[uri] = 0 THEN Len(withDocument) ELSE c.documents[uri]
             withEditor ==
                 Append(withDocument, [kind |-> "editor", uri |-> uri, disposed |-> FALSE])
         IN addFrom([objects |-> withEditor,
                     documents |-> [c.documents EXCEPT ![uri] = document],
                     editors |-> [c.editors EXCEPT ![uri] = Len(withEditor)]],
                    added, i + 1)

ctrlFrame == <<cellVars, metaVars, docVars, editVars, diffVars, sortVars, transVars>>

\* $acceptDocumentAndEditorsDelta(delta); an absent or empty list of the delta is <<>>, an
\* absent newActiveEditor is NoUri.
AcceptDocumentAndEditorsDelta ==
    \E removedDocuments \in UriLists, addedDocuments \in UriLists,
       newActiveEditor \in Uris \cup {NoUri} :
        /\ Len(objects) + 2 * Len(addedDocuments) <= MaxObjects
        /\ LET c == addFrom(removeFrom([objects |-> objects, documents |-> documents,
                                        editors |-> editors], removedDocuments, 1),
                            addedDocuments, 1)
           IN /\ objects' = c.objects
              /\ documents' = c.documents
              /\ editors' = c.editors
              /\ IF newActiveEditor # NoUri
                 THEN /\ activeNotebookDocument' = c.documents[newActiveEditor]
                      /\ activeNotebookEditor' = c.editors[newActiveEditor]
                 ELSE UNCHANGED <<activeNotebookDocument, activeNotebookEditor>>
        /\ UNCHANGED ctrlFrame

CtrlIdle ==
    /\ objects = <<>>
    /\ documents = [u \in Uris |-> 0]
    /\ editors = [u \in Uris |-> 0]
    /\ activeNotebookDocument = 0
    /\ activeNotebookEditor = 0

HostIdle == EditIdle /\ CtrlIdle

BridgeIdle == CellIdle /\ MetaIdle /\ DocIdle /\ HostIdle

\* ------------------------------------------------------------ specifications

InitDiff == DiffInit /\ SortIdle /\ TransIdle /\ BridgeIdle

NextDiff ==
    \/ DiffFlushAfter
    \/ DiffFlushBefore
    \/ DiffEqual
    \/ DiffDelete
    \/ DiffInsert

\* diff called on any before, after and contains within the bounds.
SpecDiff == InitDiff /\ [][NextDiff]_vars

InitSort == SortInit /\ DiffIdle /\ TransIdle /\ BridgeIdle

NextSort == SortMimeTypes

\* sortMimeTypes called on any mimeTypes and any three orders within the bounds, on
\* either platform.
SpecSort == InitSort /\ [][NextSort]_vars

InitTransform == TransInit /\ DiffIdle /\ BridgeIdle

NextTransform ==
    \/ TransformSort
    \/ TransformRender
    \/ TransformRenderThrows
    \/ TransformNoHandler
    \/ TransformReturn

\* transformMimeTypes called on any rich output, orders and renderer registry within the
\* bounds; each render call may return or throw.
SpecTransform == InitTransform /\ [][NextTransform]_vars

InitCell == CellInit /\ MetaIdle /\ DocIdle /\ DiffIdle /\ SortIdle /\ TransIdle
    /\ HostIdle

NextCell == CellSetOutputs

\* A cell constructed with any outputs, then any assignments to cell.outputs.
SpecCell == InitCell /\ [][NextCell]_vars

InitCellMetadata == CellMetaInit /\ CellIdle /\ DocIdle /\ DiffIdle /\ SortIdle /\ TransIdle
    /\ HostIdle

NextCellMetadata ==
    \/ CellMetadataWrite
    \/ CellMetadataAssign

\* One cell; any property writes on the objects cell.metadata returned and any assignments
\* to cell.metadata.
SpecCellMetadata == InitCellMetadata /\ [][NextCellMetadata]_vars

InitDocMetadata == MetaIdle /\ CellIdle /\ DocIdle /\ DiffIdle /\ SortIdle /\ TransIdle
    /\ HostIdle

NextDocMetadata ==
    \/ DocCreate
    \/ DocMetadataWrite
    \/ DocMetadataAssign

\* Up to two documents; any property writes on the objects document.metadata returned and
\* any assignments to document.metadata.
SpecDocMetadata == InitDocMetadata /\ [][NextDocMetadata]_vars

\* The registry and display orders the document's outputs are transformed with.
DocRenderingInit ==
    /\ SortIdle
    /\ outputData = <<>>
    /\ renderers = DocRegistry
    /\ tIdx = 0
    /\ orderMimeTypes = <<>>
    /\ renderCalls = <<>>
    /\ returned = <<>>
    /\ thrown = <<>>
    /\ tPc = "idle"

InitDocument == DocInit /\ DocRenderingInit /\ CellIdle /\ MetaIdle /\ DiffIdle
    /\ HostIdle

NextDocument ==
    \/ AcceptModelChange
    \/ AcceptMove
    \/ AcceptCellClearOutput
    \/ AcceptCellsClearOutput
    \/ AssignOutputs

\* A document of an open editor: any events from the main thread and any assignments to
\* the outputs of its cells.
SpecDocument == InitDocument /\ [][NextDocument]_vars

InitEdit == EditInit /\ CtrlIdle /\ CellIdle /\ MetaIdle /\ DocIdle /\ DiffIdle /\ SortIdle /\ TransIdle

NextEdit ==
    \/ EditInsert
    \/ EditDelete
    \/ ApplyEdit

\* One call of NotebookEditor.edit: the callback makes up to MaxEdits insert and delete
\* calls, then _applyEdit runs.
SpecEdit == InitEdit /\ [][NextEdit]_vars

InitController ==
    CtrlInit /\ EditIdle /\ CellIdle /\ MetaIdle /\ DocIdle /\ DiffIdle /\ SortIdle /\ TransIdle

NextController == AcceptDocumentAndEditorsDelta

\* Any deltas from the main thread, until MaxObjects documents and editors were made.
SpecController == InitController /\ [][NextController]_vars

\* ======================================================= properties of diff

\* One splice applied to a sequence: deleteCount items deleted at start (0-based),
\* toInsert inserted there.
ApplySplice(s, sp) ==
    SubSeq(s, 1, sp.start) \o sp.toInsert \o SubSeq(s, sp.start + sp.deleteCount + 1, Len(s))

RECURSIVE ApplyFromLast(_, _, _)
\* The first k splices applied from the last to the first, so that every start is an
\* index into the original sequence.
ApplyFromLast(s, splices, k) ==
    IF k = 0 THEN s ELSE ApplyFromLast(ApplySplice(s, splices[k]), splices, k - 1)

RECURSIVE SumDeleteCount(_, _)
SumDeleteCount(splices, k) ==
    IF k = 0 THEN 0 ELSE splices[k].deleteCount + SumDeleteCount(splices, k - 1)

RECURSIVE ConcatToInsert(_, _)
ConcatToInsert(splices, k) ==
    IF k = 0 THEN <<>> ELSE ConcatToInsert(splices, k - 1) \o splices[k].toInsert

\* Deleted plus inserted elements over all splices.
Cost(splices) ==
    SumDeleteCount(splices, Len(splices)) + Len(ConcatToInsert(splices, Len(splices)))

RECURSIVE LCS(_, _, _, _)
\* Length of a longest common subsequence of the first i items of s and the first j of t.
LCS(s, t, i, j) ==
    IF i = 0 \/ j = 0 THEN 0
    ELSE IF s[i] = t[j] THEN 1 + LCS(s, t, i - 1, j - 1)
    ELSE LET x == LCS(s, t, i - 1, j)
             y == LCS(s, t, i, j - 1)
         IN IF x >= y THEN x ELSE y

MinCost(s, t) == Len(s) + Len(t) - 2 * LCS(s, t, Len(s), Len(t))

\* s is t with some elements removed, order kept.
IsSubsequence(s, t) == LCS(s, t, Len(s), Len(t)) = Len(s)

IsProperPrefix(s, t) == Len(s) < Len(t) /\ SubSeq(t, 1, Len(s)) = s

\* The 0-based indexes of before inside a delete range of the result.
Covered(splices) ==
    { i \in 0..(Len(before) - 1) :
        \E k \in 1..Len(splices) :
            splices[k].start <= i /\ i < splices[k].start + splices[k].deleteCount }

RECURSIVE KeepUncovered(_, _, _)
\* The items of s at the 0-based indexes below n that are not in the set cov.
KeepUncovered(s, cov, n) ==
    IF n = 0 THEN <<>>
    ELSE IF (n - 1) \in cov THEN KeepUncovered(s, cov, n - 1)
    ELSE Append(KeepUncovered(s, cov, n - 1), s[n])

\* The elements common to s and t occur in the same relative order in both,
\* and neither repeats an element.
SameRelativeOrder(s, t) ==
    /\ IsInjective(s)
    /\ IsInjective(t)
    /\ \A i, j \in 1..Len(s) : \A k, l \in 1..Len(t) :
          (s[i] = t[k] /\ s[j] = t[l] /\ i < j) => k < l

ExactMembership == \A x \in Elems : contains(x) <=> x \in Range(before)

\* C1: when diff has returned, applying its splices to before, from the last to the
\* first (each start an index into the original before), gives exactly after, for
\* every before, after and contains.
C1_RoundTrip ==
    pc = "done" => ApplyFromLast(before, result, Len(result)) = after

\* C1 witness: a run with at least two splices, one deleting and one inserting, under
\* a contains that answers true for a value that is not in before.
C1_Witness ==
    /\ pc = "done"
    /\ Len(result) >= 2
    /\ \E k \in 1..Len(result) : result[k].deleteCount > 0
    /\ \E k \in 1..Len(result) : Len(result[k].toInsert) > 0
    /\ \E x \in Range(after) : contains(x) /\ x \notin Range(before)
    /\ ApplyFromLast(before, result, Len(result)) = after

\* C2: at every point of the run, consecutive splices p, q of the result satisfy
\* p.start + p.deleteCount < q.start, and every splice lies inside before:
\* 0 <= start and start + deleteCount <= length of before.
C2_OrderedCoalesced ==
    /\ \A k \in 1..(Len(result) - 1) :
          result[k].start + result[k].deleteCount < result[k + 1].start
    /\ \A k \in 1..Len(result) :
          /\ 0 <= result[k].start
          /\ result[k].start + result[k].deleteCount <= Len(before)

\* C2 witness: a returned result with two splices, the first of which was merged from
\* several contiguous pushes.
C2_Witness ==
    /\ pc = "done"
    /\ Len(result) = 2
    /\ result[1].deleteCount + Len(result[1].toInsert) >= 2
    /\ result[1].start + result[1].deleteCount < result[2].start

\* C3: at every point of the run, no splice of the result has both deleteCount 0 and
\* an empty toInsert.
C3_NoNoOp ==
    \A k \in 1..Len(result) :
        ~(result[k].deleteCount = 0 /\ Len(result[k].toInsert) = 0)

\* C3 witness: diff returned at a tail flush that had nothing left to push, after it
\* had pushed a splice earlier.
C3_Witness ==
    /\ pc = "done"
    /\ beforeIdx = Len(before)
    /\ afterIdx = Len(after)
    /\ Len(result) = 1
    /\ result[1].start + result[1].deleteCount < Len(before)

\* C4 as claimed: with contains being exact membership in before, the deleted plus
\* inserted elements of the returned splices number
\* length(before) + length(after) - 2 * LCS(before, after).
C4_MinimalAsClaimed ==
    (pc = "done" /\ ExactMembership) => Cost(result) = MinCost(before, after)

\* C4 amended: with contains being exact membership in before, the cost is never below
\* that minimum, and it equals the minimum whenever neither sequence repeats an
\* element and the elements common to both occur in the same relative order.
C4_MinimalWhenOrderKept ==
    (pc = "done" /\ ExactMembership) =>
        /\ Cost(result) >= MinCost(before, after)
        /\ SameRelativeOrder(before, after) => Cost(result) = MinCost(before, after)

\* C4 witness: a minimal result that both deletes and inserts, with the common
\* elements in the same order.
C4_Witness ==
    /\ pc = "done"
    /\ ExactMembership
    /\ SameRelativeOrder(before, after)
    /\ Range(before) \cap Range(after) # {}
    /\ SumDeleteCount(result, Len(result)) > 0
    /\ Len(ConcatToInsert(result, Len(result))) > 0
    /\ Cost(result) = MinCost(before, after)

\* C5: when before and after are element-wise identical, diff returns the empty list
\* and never calls contains, whatever contains answers.
C5_IdenticalEmpty ==
    before = after =>
        /\ containsCalls = 0
        /\ result = <<>>
        /\ pc = "done" => (beforeIdx = Len(before) /\ afterIdx = Len(after))

\* C5 witness: diff returned on two identical sequences of the greatest length, with a
\* contains that answers true for some of their elements and false for others.
C5_Witness ==
    /\ pc = "done"
    /\ before = after
    /\ Len(before) = MaxLen
    /\ \E x \in Range(before) : contains(x)
    /\ \E x \in Range(before) : ~contains(x)
    /\ result = <<>>

\* C6: when after is a subsequence of before and contains answers true for every
\* element of before, every returned splice has an empty toInsert, the deleteCounts sum
\* to length(before) - length(after), the delete ranges cover that many indexes of
\* before, and before without the covered indexes is after; removing index 1 of a
\* 3-element sequence gives exactly [{start: 1, deleteCount: 1, toInsert: []}].
C6_PureDeletion ==
    (/\ pc = "done"
     /\ IsSubsequence(after, before)
     /\ \A x \in Range(before) : contains(x)) =>
        /\ \A k \in 1..Len(result) : result[k].toInsert = <<>>
        /\ SumDeleteCount(result, Len(result)) = Len(before) - Len(after)
        /\ Cardinality(Covered(result)) = Len(before) - Len(after)
        /\ KeepUncovered(before, Covered(result), Len(before)) = after
        /\ (before = <<"a", "b", "c">> /\ after = <<"a", "c">>) =>
              result = <<[start |-> 1, deleteCount |-> 1, toInsert |-> <<>>]>>

\* C6 witness: two separate elements removed, giving two delete splices.
C6_Witness ==
    /\ pc = "done"
    /\ IsSubsequence(after, before)
    /\ \A x \in Range(before) : contains(x)
    /\ Len(result) = 2
    /\ Len(after) = Len(before) - 2

\* The items of after rebuilt from before and insert-only splices: ahead of the item at
\* each 0-based index i of before (and at the end, i = length) go the items inserted at i.
InsertedAt(splices, i) ==
    IF \E k \in 1..Len(splices) : splices[k].start = i
    THEN (splices[CHOOSE k \in 1..Len(splices) : splices[k].start = i]).toInsert
    ELSE <<>>

RECURSIVE Interleave(_, _, _)
Interleave(s, splices, n) ==
    IF n = 0 THEN InsertedAt(splices, 0)
    ELSE Interleave(s, splices, n - 1) \o <<s[n]>> \o InsertedAt(splices, n)

\* C7: when before is a subsequence of after and contains answers false for every
\* element, every returned splice has deleteCount 0, the inserted elements number
\* length(after) - length(before) and are a subsequence of after, and placing each
\* splice's toInsert ahead of the element of before at its start gives after; inserting
\* x between the elements of [a, b] gives exactly [{start: 1, deleteCount: 0, toInsert: [x]}].
C7_PureInsertion ==
    (/\ pc = "done"
     /\ IsSubsequence(before, after)
     /\ \A x \in Elems : ~contains(x)) =>
        /\ \A k \in 1..Len(result) : result[k].deleteCount = 0
        /\ \A k, l \in 1..Len(result) : result[k].start = result[l].start => k = l
        /\ Len(ConcatToInsert(result, Len(result))) = Len(after) - Len(before)
        /\ IsSubsequence(ConcatToInsert(result, Len(result)), after)
        /\ Interleave(before, result, Len(before)) = after
        /\ (before = <<"a", "b">> /\ after = <<"a", "c", "b">>) =>
              result = <<[start |-> 1, deleteCount |-> 0, toInsert |-> <<"c">>]>>

\* C7 witness: elements inserted at two different places of a non-empty before.
C7_Witness ==
    /\ pc = "done"
    /\ IsSubsequence(before, after)
    /\ \A x \in Elems : ~contains(x)
    /\ Len(before) >= 1
    /\ Len(result) = 2
    /\ result[1].start < result[2].start

\* C8: when before is a proper prefix of after, diff returns the one splice
\* {start: length(before), deleteCount: 0, toInsert: the rest of after}, whatever
\* contains answers; when after is a proper prefix of before, it returns the one splice
\* {start: length(after), deleteCount: length(before) - length(after), toInsert: []}.
C8_TailFlush ==
    pc = "done" =>
        /\ IsProperPrefix(before, after) =>
              result = <<[start |-> Len(before), deleteCount |-> 0,
                          toInsert |-> SubSeq(after, Len(before) + 1, Len(after))]>>
        /\ IsProperPrefix(after, before) =>
              result = <<[start |-> Len(after), deleteCount |-> Len(before) - Len(after),
                          toInsert |-> <<>>]>>

\* C8 witness: before is a non-empty proper prefix of after, and contains answers true
\* for an element of the flushed tail.
C8_Witness ==
    /\ pc = "done"
    /\ IsProperPrefix(before, after)
    /\ Len(before) >= 1
    /\ Len(after) - Len(before) >= 2
    /\ \E i \in (Len(before) + 1)..Len(after) : contains(after[i])
    /\ Len(result) = 1

\* C8 second witness state: after is a non-empty proper prefix of before.
C8_WitnessDelete ==
    /\ pc = "done"
    /\ IsProperPrefix(after, before)
    /\ Len(after) >= 1
    /\ Len(result) = 1
    /\ result[1].deleteCount >= 2

\* C19: no step of diff changes before or after, and the toInsert of every splice of the
\* result is an array built by the call (an array literal or the value of slice), never
\* an argument: a merge into an earlier splice writes only into such an array.
C19_DiffPure ==
    [][/\ before' = before
       /\ after' = after
       /\ \A k \in 1..Len(toInsertOrigin') : toInsertOrigin'[k] = "call"]_vars

\* C19 witness: diff returned a splice that deletes and whose toInsert was filled by
\* several pushes, the last of them the tail of after, and after is what the splices give.
C19_Witness ==
    /\ pc = "done"
    /\ beforeIdx = Len(before)
    /\ afterIdx < Len(after)
    /\ Len(result) >= 1
    /\ result[Len(result)].deleteCount >= 1
    /\ Len(result[Len(result)].toInsert) > Len(after) - afterIdx
    /\ toInsertOrigin[Len(result)] = "call"
    /\ ApplyFromLast(before, result, Len(result)) = after

\* C20: diff never has more than length(before) + length(after) + 1 iterations behind
\* it; while it is in the loop every iteration so far advanced beforeIdx or afterIdx,
\* neither index is beyond the length of its sequence, and a next iteration can run
\* (no branch is missing, nothing fails).
C20_Total ==
    /\ pc \in {"loop", "done"}
    /\ 0 <= beforeIdx /\ beforeIdx <= Len(before)
    /\ 0 <= afterIdx /\ afterIdx <= Len(after)
    /\ iterations <= Len(before) + Len(after) + 1
    /\ pc = "loop" => iterations <= beforeIdx + afterIdx
    /\ pc = "done" => iterations <= beforeIdx + afterIdx + 1
    /\ pc = "loop" => ENABLED NextDiff

\* C20 witness: diff returned after as many iterations as the two sequences have
\* elements, on sequences of two or more elements each.
C20_Witness ==
    /\ pc = "done"
    /\ Len(before) >= 2
    /\ Len(after) >= 2
    /\ iterations = Len(before) + Len(after)

\* C20 second witness state: on two empty sequences the one iteration is the bound.
C20_WitnessEmpty ==
    /\ pc = "done"
    /\ before = <<>>
    /\ after = <<>>
    /\ iterations = Len(before) + Len(after) + 1

\* ============================================== properties of sortMimeTypes

\* The three lists as one.
AllOrders == userDisplayOrder \o documentDisplayOrder \o defaultOrder

\* A glob pattern matches a mime type: glob's matching of the two strings as they are
\* written, whatever the platform.
Matches(pattern, mimeType) == globMatch(pattern, mimeType)

MatchedBy(list, mimeType) == \E i \in 1..Len(list) : Matches(list[i], mimeType)

\* The rank of the claim: the 0-based index of the first matching pattern of the
\* concatenation, or its length.
Rank(mimeType) ==
    IF MatchedBy(AllOrders, mimeType)
    THEN (CHOOSE i \in 1..Len(AllOrders) :
            /\ Matches(AllOrders[i], mimeType)
            /\ \A j \in 1..(i - 1) : ~Matches(AllOrders[j], mimeType)) - 1
    ELSE Len(AllOrders)

IsPermutation(s, t) ==
    /\ Len(s) = Len(t)
    /\ \A x \in Range(s) \cup Range(t) :
          Cardinality({i \in 1..Len(s) : s[i] = x}) = Cardinality({i \in 1..Len(t) : t[i] = x})

\* The 1-based index of the first entry of list equal to x.
IndexOf(list, x) == CHOOSE i \in 1..Len(list) : list[i] = x /\ \A j \in 1..(i - 1) : list[j] # x

AscendingRank ==
    /\ IsPermutation(sortedValue, mimeTypesAtCall)
    /\ \A p, q \in 1..Len(sortedValue) : p < q => Rank(sortedValue[p]) <= Rank(sortedValue[q])

\* C9 as claimed: the result is a permutation of the input in ascending rank, and with
\* empty user and document orders the mime types listed in defaultOrder come out in
\* defaultOrder's order.
C9_RankOrderAsClaimed ==
    sortPc = "done" =>
        /\ AscendingRank
        /\ (userDisplayOrder = <<>> /\ documentDisplayOrder = <<>>) =>
              \A p, q \in 1..Len(sortedValue) :
                 (/\ p < q
                  /\ sortedValue[p] \in Range(defaultOrder)
                  /\ sortedValue[q] \in Range(defaultOrder)) =>
                     IndexOf(defaultOrder, sortedValue[p]) < IndexOf(defaultOrder, sortedValue[q])

\* C9 amended: the result is a permutation of the input in ascending rank, and with
\* empty user and document orders the mime types listed in defaultOrder that no earlier
\* pattern of defaultOrder matches come out in defaultOrder's order.
C9_RankOrder ==
    sortPc = "done" =>
        /\ AscendingRank
        /\ (userDisplayOrder = <<>> /\ documentDisplayOrder = <<>>) =>
              \A p, q \in 1..Len(sortedValue) :
                 (/\ p < q
                  /\ sortedValue[p] \in Range(defaultOrder)
                  /\ sortedValue[q] \in Range(defaultOrder)
                  /\ Rank(sortedValue[p]) = IndexOf(defaultOrder, sortedValue[p]) - 1
                  /\ Rank(sortedValue[q]) = IndexOf(defaultOrder, sortedValue[q]) - 1) =>
                     IndexOf(defaultOrder, sortedValue[p]) < IndexOf(defaultOrder, sortedValue[q])

\* C9 witness: with empty user and document orders, two mime types listed in
\* defaultOrder and one that nothing matches were handed over in the opposite order and
\* came out in defaultOrder's order, the unmatched one last.
C9_Witness ==
    /\ sortPc = "done"
    /\ userDisplayOrder = <<>>
    /\ documentDisplayOrder = <<>>
    /\ Len(sortedValue) = 3
    /\ sortedValue # mimeTypesAtCall
    /\ sortedValue[1] \in Range(defaultOrder)
    /\ sortedValue[2] \in Range(defaultOrder)
    /\ IndexOf(defaultOrder, sortedValue[1]) < IndexOf(defaultOrder, sortedValue[2])
    /\ Rank(sortedValue[3]) = Len(AllOrders)
    /\ mimeTypesAtCall[1] = sortedValue[3]

PositionOf(mimeType) == CHOOSE p \in 1..Len(sortedValue) : sortedValue[p] = mimeType

\* C10: in the result every mime type that a userOrder pattern matches stands before
\* every one that none matches; of the latter, every one a documentOrder pattern matches
\* stands before every one only defaultOrder matches; and those no list matches stand
\* behind all that some list matches.
C10_Precedence ==
    sortPc = "done" =>
        \A a, b \in Range(sortedValue) :
            /\ (MatchedBy(userDisplayOrder, a) /\ ~MatchedBy(userDisplayOrder, b)) =>
                  PositionOf(a) < PositionOf(b)
            /\ (/\ ~MatchedBy(userDisplayOrder, a)
                /\ ~MatchedBy(userDisplayOrder, b)
                /\ MatchedBy(documentDisplayOrder, a)
                /\ ~MatchedBy(documentDisplayOrder, b)) =>
                  PositionOf(a) < PositionOf(b)
            /\ (MatchedBy(AllOrders, a) /\ ~MatchedBy(AllOrders, b)) =>
                  PositionOf(a) < PositionOf(b)

\* C10 witness: a mime type matched by userOrder came out ahead of one matched by
\* documentOrder, although defaultOrder matches both and ranks them the other way
\* round, and a mime type no list matches came out last.
C10_Witness ==
    /\ sortPc = "done"
    /\ Len(sortedValue) = 3
    /\ MatchedBy(userDisplayOrder, sortedValue[1])
    /\ ~MatchedBy(userDisplayOrder, sortedValue[2])
    /\ MatchedBy(documentDisplayOrder, sortedValue[2])
    /\ ~MatchedBy(AllOrders, sortedValue[3])
    /\ mimeTypesAtCall = <<sortedValue[3], sortedValue[2], sortedValue[1]>>

\* C10 second witness state: userOrder overrides a defaultOrder that ranks the two
\* mime types in the opposite order.
C10_WitnessOverride ==
    /\ sortPc = "done"
    /\ Len(sortedValue) = 2
    /\ documentDisplayOrder = <<>>
    /\ Len(defaultOrder) = 2
    /\ Matches(defaultOrder[1], sortedValue[2])
    /\ ~Matches(defaultOrder[1], sortedValue[1])
    /\ Matches(defaultOrder[2], sortedValue[1])
    /\ MatchedBy(userDisplayOrder, sortedValue[1])
    /\ ~MatchedBy(userDisplayOrder, sortedValue[2])

\* C11: two mime types of the same rank (first matched by the same pattern, or matched
\* by none) stand in the result in the order they had in the input.
C11_Stable ==
    sortPc = "done" =>
        \A i, j \in 1..Len(mimeTypesAtCall) :
            (i < j /\ Rank(mimeTypesAtCall[i]) = Rank(mimeTypesAtCall[j])) =>
                PositionOf(mimeTypesAtCall[i]) < PositionOf(mimeTypesAtCall[j])

\* C11 witness: two mime types first matched by the same glob pattern kept their order
\* while a mime type of lower rank, handed over between them, moved ahead of both.
C11_Witness ==
    /\ sortPc = "done"
    /\ Len(mimeTypesAtCall) = 3
    /\ Rank(mimeTypesAtCall[1]) = Rank(mimeTypesAtCall[3])
    /\ Rank(mimeTypesAtCall[1]) < Len(AllOrders)
    /\ Rank(mimeTypesAtCall[2]) < Rank(mimeTypesAtCall[1])
    /\ sortedValue = <<mimeTypesAtCall[2], mimeTypesAtCall[1], mimeTypesAtCall[3]>>

\* C11 second witness state: two mime types that no pattern matches kept their order
\* behind a matched one.
C11_WitnessUnmatched ==
    /\ sortPc = "done"
    /\ Len(mimeTypesAtCall) = 3
    /\ Rank(mimeTypesAtCall[1]) = Len(AllOrders)
    /\ Rank(mimeTypesAtCall[2]) = Len(AllOrders)
    /\ Rank(mimeTypesAtCall[3]) < Len(AllOrders)
    /\ sortedValue = <<mimeTypesAtCall[3], mimeTypesAtCall[1], mimeTypesAtCall[2]>>

\* C18 as claimed: after sortMimeTypes has returned, the caller's mimeTypes array holds
\* what it held at the call, and the result is another array than the argument.
C18_SortLeavesArgument ==
    sortPc = "done" => (mimeTypes = mimeTypesAtCall /\ sorted # "mimeTypes")

\* -------------------------------------------- properties of transformMimeTypes

\* The candidates of one mime type, in list order.
CandidatesOf(list, mimeType) == SelectSeq(list, LAMBDA c : c.mimeType = mimeType)

\* The render calls made for one mime type, in call order.
RenderCallsFor(mimeType) == SelectSeq(renderCalls, LAMBDA r : r.mimeType = mimeType)

HasRendererId(c) == "rendererId" \in DOMAIN c

IsCore(mimeType) == mimeTypeSupportedByCore(mimeType)

ResolvedCandidate(mimeType, handle) ==
    [mimeType |-> mimeType, isResolved |-> TRUE, rendererId |-> handle,
     output |-> render(handle, mimeType)]

UnresolvedCandidate(mimeType, handle) ==
    [mimeType |-> mimeType, isResolved |-> FALSE, rendererId |-> handle]

BareCandidate(mimeType) == [mimeType |-> mimeType, isResolved |-> FALSE]

\* The mime types of a candidate list with each run of equal neighbours taken once.
RECURSIVE Groups(_)
Groups(list) ==
    IF Len(list) = 0 THEN <<>>
    ELSE IF Len(list) >= 2 /\ list[1].mimeType = list[2].mimeType THEN Groups(Tail(list))
    ELSE <<list[1].mimeType>> \o Groups(Tail(list))

\* C12: in the returned candidate list, every mime type of the output with n >= 1
\* matching renderers h0..h(n-1) has one resolved candidate carrying h0 and the output h0
\* rendered, immediately followed by the unresolved candidates of h1..h(n-1) in that
\* order; and at every moment each render call made was made on the first matching
\* renderer of its mime type, at most once per mime type (exactly once when the function
\* has returned).
C12_LazyAlternatives ==
    /\ \A k \in 1..Len(renderCalls) :
          /\ Len(findBestMatchedRenderer(renderCalls[k].mimeType)) >= 1
          /\ renderCalls[k].handle = findBestMatchedRenderer(renderCalls[k].mimeType)[1].handle
          /\ \A l \in 1..Len(renderCalls) :
                renderCalls[l].mimeType = renderCalls[k].mimeType => l = k
    /\ tPc = "done" =>
          \A m \in Range(outputData) :
             LET h == findBestMatchedRenderer(m)
                 n == Len(h)
                 list == returned[1].orderedMimeTypes
             IN n >= 1 =>
                   /\ \E p \in 1..Len(list) :
                         /\ list[p] = ResolvedCandidate(m, h[1].handle)
                         /\ p + n - 1 <= Len(list)
                         /\ \A i \in 1..(n - 1) : list[p + i] = UnresolvedCandidate(m, h[i + 1].handle)
                   /\ Cardinality({p \in 1..Len(list) : list[p].mimeType = m /\ list[p].isResolved}) = 1
                   /\ RenderCallsFor(m) = <<[handle |-> h[1].handle, mimeType |-> m, outcome |-> "returned"]>>

\* C12 witness: the function returned for an output with a mime type that two renderers
\* match, and render was called for it.
C12_Witness ==
    /\ tPc = "done"
    /\ \E m \in Range(outputData) :
          /\ Len(findBestMatchedRenderer(m)) = 2
          /\ Len(RenderCallsFor(m)) = 1
          /\ Len(CandidatesOf(returned[1].orderedMimeTypes, m)) >= 2

C14_Unsupported ==
    tPc = "done" =>
        \A m \in Range(outputData) :
            (Len(findBestMatchedRenderer(m)) = 0 /\ ~IsCore(m)) =>
                /\ CandidatesOf(returned[1].orderedMimeTypes, m) = <<BareCandidate(m)>>
                /\ ~HasRendererId(CandidatesOf(returned[1].orderedMimeTypes, m)[1])
                /\ RenderCallsFor(m) = <<>>

\* C14 witness: the function returned for an output with a mime type that is not
\* core-supported and that no registered renderer matches, next to one that was rendered.
C14_Witness ==
    /\ tPc = "done"
    /\ Len(renderers) >= 1
    /\ Len(renderCalls) >= 1
    /\ \E m \in Range(outputData) : Len(findBestMatchedRenderer(m)) = 0 /\ ~IsCore(m)

\* C15: the returned value has the output's outputKind and data, pickedMimeTypeIndex 0,
\* and a candidate list whose mime types, run by run, are the keys of data in ascending
\* rank with equally ranked keys in the order of the keys; so the candidate at index 0 of
\* a non-empty output has a mime type of least rank.
C15_Shape ==
    tPc = "done" =>
        LET list == returned[1].orderedMimeTypes
            groups == Groups(list)
        IN /\ returned[1].outputKind = "Rich"
           /\ returned[1].data = outputData
           /\ returned[1].pickedMimeTypeIndex = 0
           /\ IsPermutation(groups, outputData)
           /\ \A p, q \in 1..Len(groups) : p < q => Rank(groups[p]) <= Rank(groups[q])
           /\ \A i, j \in 1..Len(outputData) :
                 (i < j /\ Rank(outputData[i]) = Rank(outputData[j])) =>
                     IndexOf(groups, outputData[i]) < IndexOf(groups, outputData[j])
           /\ Len(outputData) > 0 =>
                 /\ Len(list) > 0
                 /\ \A m \in Range(outputData) :
                       Rank(list[returned[1].pickedMimeTypeIndex + 1].mimeType) <= Rank(m)

\* C15 witness: the function returned for an output of three mime types whose last key
\* has the least rank, so that the candidate at index 0 belongs to the last key.
C15_Witness ==
    /\ tPc = "done"
    /\ Len(outputData) = 3
    /\ Rank(outputData[3]) < Rank(outputData[1])
    /\ returned[1].orderedMimeTypes[1].mimeType = outputData[3]
    /\ Len(returned[1].orderedMimeTypes) > 3

\* C16: a render call that threw is the last call made; from then on the function has
\* ended with the error of that call and has returned nothing, render was called once
\* for that mime type, the candidate list holds no candidate for that mime type, and no
\* further step of the function is possible.
C16_FailurePassThrough ==
    /\ \A k \in 1..Len(renderCalls) :
          renderCalls[k].outcome = "threw" =>
              LET m == renderCalls[k].mimeType
              IN /\ k = Len(renderCalls)
                 /\ tPc = "thrown"
                 /\ thrown = renderError(renderCalls[k].handle, m)
                 /\ returned = <<>>
                 /\ Len(RenderCallsFor(m)) = 1
                 /\ CandidatesOf(orderMimeTypes, m) = <<>>
                 /\ ~ENABLED NextTransform
    /\ thrown # <<>> <=> tPc = "thrown"
    /\ tPc = "thrown" =>
          Len(renderCalls) >= 1 /\ renderCalls[Len(renderCalls)].outcome = "threw"
    /\ returned # <<>> => thrown = <<>>

\* C16 witness: render threw for the second mime type visited, which another renderer
\* matches too and which is core-supported, after the first mime type was rendered.
C16_Witness ==
    /\ tPc = "thrown"
    /\ Len(renderCalls) = 2
    /\ Len(findBestMatchedRenderer(renderCalls[2].mimeType)) = 2
    /\ IsCore(renderCalls[2].mimeType)
    /\ Len(orderMimeTypes) >= 1

\* C17: in the candidate list at every moment, a candidate is resolved exactly if it
\* carries an output, and that output was rendered by a call, which returned, of the
\* renderer whose handle is its rendererId; no mime type has two resolved candidates; a
\* candidate with rendererId -1 is unresolved and of a core-supported mime type; and any
\* other rendererId is the handle of a registered renderer that matches the mime type.
C17_IsResolvedMeaning ==
    /\ \A p \in 1..Len(orderMimeTypes) :
          LET c == orderMimeTypes[p]
          IN /\ c.isResolved <=> "output" \in DOMAIN c
             /\ c.isResolved =>
                   /\ HasRendererId(c)
                   /\ c.output = render(c.rendererId, c.mimeType)
                   /\ \E k \in 1..Len(renderCalls) :
                         renderCalls[k] = [handle |-> c.rendererId, mimeType |-> c.mimeType,
                                           outcome |-> "returned"]
             /\ (HasRendererId(c) /\ c.rendererId = -1) => (~c.isResolved /\ IsCore(c.mimeType))
             /\ (HasRendererId(c) /\ c.rendererId # -1) =>
                   \E r \in Range(renderers) : r.handle = c.rendererId /\ matches(r, c.mimeType)
             /\ \A q \in 1..Len(orderMimeTypes) :
                   (c.isResolved /\ orderMimeTypes[q].isResolved
                      /\ orderMimeTypes[q].mimeType = c.mimeType) => q = p
    /\ tPc = "done" => returned[1].orderedMimeTypes = orderMimeTypes

\* C17 witness: a returned candidate list holding a resolved candidate, an unresolved
\* alternative renderer, a core candidate and a candidate with no rendererId.
C17_Witness ==
    /\ tPc = "done"
    /\ \E p1, p2, p3, p4 \in 1..Len(orderMimeTypes) :
          /\ orderMimeTypes[p1].isResolved
          /\ ~orderMimeTypes[p2].isResolved /\ HasRendererId(orderMimeTypes[p2])
          /\ orderMimeTypes[p2].rendererId >= 0
          /\ HasRendererId(orderMimeTypes[p3]) /\ orderMimeTypes[p3].rendererId = -1
          /\ ~HasRendererId(orderMimeTypes[p4])

\* ------------------------------------------------------- properties of ExtHostCell

\* C21 as claimed: in every state of a cell, the set the outputs setter consults as
\* contains holds exactly the elements of the cell's current outputs.
C21_MappingIsOutputs ==
    cellPc = "live" => outputMapping = Range(cellOutputs)

\* ---------------------------------------------------------- properties of metadata

\* The $updateNotebookCellMetadata calls of the last step.
CellUpdates == SelectSeq(sent, LAMBDA u : u.owner = "cell")

\* The metadata an owner holds now, as the main thread would receive it.
ObservedMetadata(owner) == heap[deref(ProxyRef(currentOf(owner)))]

\* C22: a property write on the object cell.metadata returns sent exactly one
\* $updateNotebookCellMetadata, carrying the cell's metadata with the written value; an
\* assignment to cell.metadata sent exactly one, carrying the new metadata; a property
\* write on an object cell.metadata returned before a reassignment sent none.
C22_ObservableMetadata ==
    lastOp.owner = "cell" =>
        /\ (lastOp.kind = "write" /\ lastOp.proxy = cellMeta) =>
              /\ CellUpdates = <<[owner |-> "cell", metadata |-> ObservedMetadata("cell")]>>
              /\ CellUpdates[1].metadata[lastOp.prop] = lastOp.value
        /\ lastOp.kind = "assign" =>
              /\ lastOp.proxy = cellMeta
              /\ CellUpdates = <<[owner |-> "cell", metadata |-> ObservedMetadata("cell")]>>
        /\ (lastOp.kind = "write" /\ lastOp.proxy # cellMeta) => CellUpdates = <<>>

\* C22 witness: after a reassignment of cell.metadata to the object it returned before, a
\* property write on the newly returned object changed the value and sent one update.
C22_Witness ==
    /\ lastOp = [kind |-> "write", owner |-> "cell", proxy |-> cellMeta, prop |-> "editable",
                 value |-> "true"]
    /\ cellMeta > 1
    /\ proxies[cellMeta].target.kind = "proxy"
    /\ Len(CellUpdates) = 1

\* C22 second witness state: a property write on a previously returned object changed the
\* plain object the current metadata wraps, and sent nothing.
C22_WitnessStale ==
    /\ lastOp.kind = "write" /\ lastOp.owner = "cell"
    /\ lastOp.proxy # cellMeta
    /\ deref(ProxyRef(lastOp.proxy)) = deref(ProxyRef(cellMeta))
    /\ sent = <<>>

\* C30 as claimed: a property write on the metadata of one document changes neither the
\* metadata observed on any other document nor notebookDocumentMetadataDefaults, which
\* documents created afterwards start from.
C30_NoSharedMetadata ==
    [][(lastOp'.kind = "write" /\ lastOp'.owner \in DocIds) =>
          /\ heap'[1] = heap[1]
          /\ \A d \in DocIds \ {lastOp'.owner} :
                docMeta[d] # 0 => ObservedMetadata(d)' = ObservedMetadata(d)]_vars

\* C23 as claimed: in every value transformMimeTypes returns, pickedMimeTypeIndex is the
\* index of an entry of orderedMimeTypes, so that
\* orderedMimeTypes[pickedMimeTypeIndex].isResolved reads an entry.
C23_PickedIndexValid ==
    tPc = "done" =>
        /\ 0 <= returned[1].pickedMimeTypeIndex
        /\ returned[1].pickedMimeTypeIndex < Len(returned[1].orderedMimeTypes)

\* --------------------------------------- properties of ExtHostNotebookDocument

\* C24 as claimed: after any events, every cell of document.cells has a registered
\* onDidChangeOutputs listener of the document, and the handles that have a disposable
\* store are exactly the handles of the cells of document.cells.
C24_CellsStaySubscribed ==
    /\ \A i \in 1..Len(cells) : isSubscribed(cells[i], stores)
    /\ { h \in Handles : stores[h].present } = { cells[i].handle : i \in 1..Len(cells) }

\* What a cell list holds, cell by cell, without the identity of the cell objects.
Contents(cs) == [i \in 1..Len(cs) |-> [handle |-> cs[i].handle, outputs |-> cs[i].outputs]]

\* The splices of an event as replacements of ranges by the new cells' contents.
AsReplacements(changes) ==
    [k \in 1..Len(changes) |->
        [start |-> changes[k].start, deleteCount |-> changes[k].deleteCount,
         toInsert |-> changes[k].cells]]

\* C25: after a ModelChange event whose splices are sorted by start and do not overlap,
\* the cell list holds the pre-event list with each range [start, start + deleteCount)
\* replaced by that splice's new cells (the splices applied from last to first), the cells
\* outside the ranges being the same cell objects as before; and versionId is the event's.
C25_SplicesInPreEventCoordinates ==
    docOp.kind = "modelChange" =>
        /\ Contents(cells) =
              ApplyFromLast(Contents(docOp.before), AsReplacements(received[1].changes),
                            Len(received[1].changes))
        /\ \A i \in 1..Len(cells), j \in 1..Len(docOp.before) :
              cells[i].id = docOp.before[j].id => cells[i] = docOp.before[j]
        /\ \A j \in 1..Len(docOp.before) :
              (\A k \in 1..Len(received[1].changes) :
                  \/ j <= received[1].changes[k].start
                  \/ j > received[1].changes[k].start + received[1].changes[k].deleteCount)
              => \E i \in 1..Len(cells) : cells[i] = docOp.before[j]
        /\ versionId = received[1].versionId

\* C25 witness: an event with two splices, the first replacing the first cell and the
\* second deleting the second cell, was applied to a list of two cells.
C25_Witness ==
    /\ docOp.kind = "modelChange"
    /\ Len(docOp.before) = 2
    /\ Len(received[1].changes) = 2
    /\ received[1].changes[1].deleteCount = 1 /\ Len(received[1].changes[1].cells) = 1
    /\ received[1].changes[2].deleteCount = 1 /\ Len(received[1].changes[2].cells) = 0
    /\ Len(cells) = 1
    /\ cells[1].handle = docOp.before[2].handle

\* C26 as claimed: the event handed to the onDidChangeNotebookDocument listeners has the
\* changes of the event received, in the same order.
C26_EventUnchanged ==
    docOp.kind = "modelChange" => emitted = received

\* The call C27 expects for one assignment: the splices of diff(previous outputs, new
\* outputs) with the inserted outputs transformed, for the cell's handle.
ExpectedSplices(old, new) ==
    LET diffs == diff(old.outputs, new.outputs, Range(old.outputs))
    IN [k \in 1..Len(diffs) |->
           [start |-> diffs[k].start, deleteCount |-> diffs[k].deleteCount,
            outputs |-> [i \in 1..Len(diffs[k].toInsert) |-> transformOutput(diffs[k].toInsert[i])]]]

\* The rendererIds of the resolved picked candidates of the rich outputs among outputs.
ResolvedPicked(outputs) ==
    { transformMimeTypes(outputs[i]).orderedMimeTypes[1].rendererId :
        i \in { j \in 1..Len(outputs) :
                  /\ outputs[j].outputKind = "Rich"
                  /\ Len(transformMimeTypes(outputs[j]).orderedMimeTypes) > 0
                  /\ transformMimeTypes(outputs[j]).orderedMimeTypes[1].isResolved } }

IsExpectedCall(call, old, new) ==
    /\ call.handle = old.handle
    /\ call.splices = ExpectedSplices(old, new)
    /\ Range(call.renderers) =
          ResolvedPicked(allInserted(diff(old.outputs, new.outputs, Range(old.outputs)), 1))

\* C27 as claimed: an assignment to the outputs of a cell of the document, by an extension
\* or by a CellClearOutput event, made exactly one $spliceNotebookCellOutputs call, for
\* that cell, with the splices of diff(previous outputs, new outputs), the inserted rich
\* outputs transformed, and the rendererIds of their resolved picked candidates; a
\* CellsClearOutput event made one such call per cell, in the order of the cells.
C27_OutputChangesForwarded ==
    /\ docOp.kind \in {"assign", "clear"} =>
          /\ Len(spliceCalls) = 1
          /\ IsExpectedCall(spliceCalls[1], docOp.before[docOp.index + 1], cells[docOp.index + 1])
    /\ docOp.kind = "clearAll" =>
          /\ Len(spliceCalls) = Len(cells)
          /\ \A i \in 1..Len(cells) : IsExpectedCall(spliceCalls[i], docOp.before[i], cells[i])

\* -------------------------------------------------- properties of NotebookEditor.edit

\* The cell lists the edits are applied to.
EditedLists == SeqsUpTo({ newCell("x"), newCell("y") }, 2)

Min(a, b) == IF a < b THEN a ELSE b

\* One edit applied to a cell list: insert the cells at index; delete count cells at index
\* (positions past the end are the end, as with Array.prototype.splice).
ApplyEditTo(list, e) ==
    LET at0 == Min(e.index, Len(list))
    IN IF e.editType = "Insert"
       THEN SubSeq(list, 1, at0) \o e.cells \o SubSeq(list, at0 + 1, Len(list))
       ELSE SubSeq(list, 1, at0) \o SubSeq(list, Min(at0 + e.count, Len(list)) + 1, Len(list))

RECURSIVE ApplyEdits(_, _, _)
\* The edits from the k-th on applied one after another.
ApplyEdits(list, edits, k) ==
    IF k > Len(edits) THEN list ELSE ApplyEdits(ApplyEditTo(list, edits[k]), edits, k + 1)

\* C28 as claimed: the compressed edits sent to $tryApplyEdits, applied one after another
\* to any cell list, give the same list as the collected insert and delete edits applied
\* one after another in the order of the calls; and with no edit collected, edit resolves
\* to true and $tryApplyEdits is not called.
C28_CompressionKeepsMeaning ==
    editPc = "finalized" =>
        IF editCalls = <<>>
        THEN editResult = "true" /\ tryApplyEdits = <<>>
        ELSE /\ Len(tryApplyEdits) = 1
             /\ \A list \in EditedLists :
                   ApplyEdits(list, tryApplyEdits[1], 1) = ApplyEdits(list, editCalls, 1)

\* ---------------------------------------- properties of ExtHostNotebookController

\* C29 as claimed: activeNotebookDocument is undefined or the document registered under
\* its uri, not disposed; activeNotebookEditor is undefined or the editor registered under
\* its uri.
C29_ActiveIsRegistered ==
    /\ activeNotebookDocument # 0 =>
          /\ documents[objects[activeNotebookDocument].uri] = activeNotebookDocument
          /\ ~objects[activeNotebookDocument].disposed
    /\ activeNotebookEditor # 0 =>
          editors[objects[activeNotebookEditor].uri] = activeNotebookEditor

====
